---- MODULE Spec2Model ----
(***************************************************************************)
(* A model of the PLY reader of ply-rs (src/src/parser/mod.rs and          *)
(* src/src/parser/ply_grammar.rs) and of the data model it fills           *)
(* (src/src/ply).                                                          *)
(*                                                                         *)
(* The input is a sequence of items.  An item is either one byte or one    *)
(* lexical atom of the text grammar: the text of a header statement, or    *)
(* one numeric token of an ASCII data line.  Whitespace and line           *)
(* terminators are bytes, so that BufRead::read_line and the line_break    *)
(* rule of the grammar are modelled by what they do on the stream.         *)
(***************************************************************************)
EXTENDS Integers, Sequences, FiniteSets, TLC

VARIABLES
    src,                \* the whole input behind the reader
    pos,                \* number of items the reader has consumed
    pc,                 \* position of the call: "magic", "header", "payload", "rows", "done", "failed"
    line_index,         \* LocationTracker.line_index
    header_form_ver,    \* local of __read_header: Option<(Encoding, Option<Version>)>
    header_obj_infos,   \* local of __read_header
    header_elements,    \* local of __read_header: KeyMap<ElementDef>
    header_comments,    \* local of __read_header
    header,             \* the Header returned by __read_header
    payload,            \* local of __read_payload: KeyMap<Vec<E>>
    ei,                 \* __read_payload: number of header elements finished
    elems,              \* rows decoded so far for the element being read
    result,             \* what the call returned: "none", "ok", "err"
    ply,                \* the Ply returned with Ok
    err,                \* the PlyError returned with Err
    written,            \* the Ply handed to make_consistent and to the writer
    consistent,         \* make_consistent has succeeded on `written`
    wresult             \* what the write call returned: "none", "ok", "err"

vars == << src, pos, pc, line_index, header_form_ver, header_obj_infos,
           header_elements, header_comments, header, payload, ei, elems,
           result, ply, err, written, consistent, wresult >>

----------------------------------------------------------------------------
(* Items of the stream *)

Item(t, s, a, b, n, m) == [t |-> t, s |-> s, a |-> a, b |-> b, n |-> n, m |-> m]

Byte(n) == Item("byte", "", "", "", n, 0)

LF  == Byte(10)
CR  == Byte(13)
SP  == Byte(32)
TAB == Byte(9)

\* the text "ply"
MagicNumber == Item("ply", "", "", "", 0, 0)
\* the text "format <enc> <maj>.<min>"
FormatLn(enc, maj, min) == Item("format", enc, "", "", maj, min)
\* the text "comment", the blanks that separate it from `body`, `lead` of
\* them beyond the first, and `body`
CommentLn(body, lead) == Item("comment", body, "", "", lead, 0)
\* the text "obj_info", the blanks that separate it from `body`, `lead` of
\* them beyond the first, and `body`
ObjInfoLn(body, lead) == Item("obj_info", body, "", "", lead, 0)
\* the text "element <name> <count>"; big = 1 when the digits do not fit usize
ElementLn(name, count, big) == Item("element", name, "", "", count, big)
\* the text "property <ty> <name>" (idx = "") or "property list <idx> <ty> <name>"
PropertyLn(name, idx, ty) == Item("property", name, idx, ty, 0, 0)
\* the text "end_header"
EndHeaderLn == Item("end_header", "", "", "", 0, 0)
\* a text no rule of the grammar matches
Junk == Item("junk", "", "", "", 0, 0)
\* one numeric token: sign, digits, and frac = 1 with a fraction or exponent part
Num(sign, mag, frac) == Item("num", sign, "", "", mag, frac)
\* the numeric token 18446744073709551615, the largest usize
UsizeMax == Item("num", "", "usize::MAX", "", 0, 0)

IsSpace(x) == x = SP \/ x = TAB

----------------------------------------------------------------------------
(* Data model: src/src/ply *)

ScalarTypes == {"char", "uchar", "short", "ushort", "int", "uint", "float", "double"}

Scalar(ty) == [kind |-> "Scalar", index |-> "", elem |-> ty]
List(idx, ty) == [kind |-> "List", index |-> idx, elem |-> ty]

PropertyDef(name, data_type) == [name |-> name, data_type |-> data_type]

EmptyMap == << >>

ElementDef(name) == [name |-> name, count |-> 0, properties |-> EmptyMap]

NoVersion == [major |-> -1, minor |-> -1]
Version(maj, min) == [major |-> maj, minor |-> min]

\* a comment or obj_info string: `lead` leading whitespace characters, the
\* text `body`, `trail` trailing whitespace characters
Text(lead, body, trail) == [lead |-> lead, body |-> body, trail |-> trail]

----------------------------------------------------------------------------
(* KeyMap: src/src/ply/key_map.rs, an IndexMap<String, V> *)

Keys(map) == { map[i].key : i \in 1..Len(map) }

KeyIndex(map, k) ==
    IF k \in Keys(map) THEN CHOOSE i \in 1..Len(map) : map[i].key = k ELSE 0

\* a slip: an existing key is removed and the new entry goes to the end
Insert_moved(map, k, v) ==
    Append(SelectSeq(map, LAMBDA e : e.key # k), [key |-> k, value |-> v])

\* IndexMap::insert: an existing key keeps its position and gets the new value
Insert(map, k, v) ==
    IF k \in Keys(map)
    THEN [map EXCEPT ![KeyIndex(map, k)] = [key |-> k, value |-> v]]
    ELSE Append(map, [key |-> k, value |-> v])

get_key(v) == v.name

\* a slip: the value is appended whether or not its name is held
add_appending(map, value) == Append(map, [key |-> get_key(value), value |-> value])

add(map, value) == Insert(map, get_key(value), value)

\* a slip: a map of one entry counts as empty
is_empty_or_single(map) == Len(map) <= 1

\* IndexMap::is_empty
is_empty(map) == map = EmptyMap

\* IndexMap::pop: removes the last entry
PopValue(map) == map[Len(map)].value
PopRest(map) == SubSeq(map, 1, Len(map) - 1)

\* a slip: the value of the first entry is returned for every held key
Get_first(map, k) == map[1].value

Get(map, k) == map[KeyIndex(map, k)].value

----------------------------------------------------------------------------
(* Errors: src/src/errors.rs *)

\* PlyError: cat is the variant ("Io", "Parse", "Inconsistent", "Serialize"),
\* kind the io::ErrorKind of an Io error, msg the message, and name, expected,
\* got the element name and the row counts a message states; cause is the
\* io::ErrorKind of the error the message quotes, or that of the error itself
PlyError(cat, kind, msg, name, expected, got) ==
    [cat |-> cat, kind |-> kind, msg |-> msg, name |-> name,
     expected |-> expected, got |-> got, cause |-> kind]

\* an error whose message quotes the error e it was made from
Quoting(e, made) == [made EXCEPT !.cause = e.cause]

NoError == PlyError("", "", "", "", 0, 0)

Io(kind, msg) == PlyError("Io", kind, msg, "", 0, 0)
Parse(msg) == PlyError("Parse", "", msg, "", 0, 0)

\* parse_ascii_rethrow and parse_ascii_error both build a PlyError::Parse
parse_ascii_rethrow(msg) == Parse(msg)
parse_ascii_error(msg) == Parse(msg)

----------------------------------------------------------------------------
(* BufRead::read_line as the parser uses it *)

\* index of the first LF at or after i, or Len(s) when there is none
LineEnd(s, i) ==
    LET feeds == { j \in i..Len(s) : s[j] = LF }
    IN  IF feeds = {} THEN Len(s)
        ELSE CHOOSE j \in feeds : \A k \in feeds : j <= k

\* a chunk is text when it holds no byte above 127 (read_line fails on a
\* chunk that is not UTF-8)
Utf8Ok(chunk) == \A i \in 1..Len(chunk) : chunk[i].t = "byte" => chunk[i].n < 128

\* a slip: an empty line before the line is passed over
read_line_skipping(s, p) ==
    LET e1 == IF p >= Len(s) THEN p ELSE LineEnd(s, p + 1)
        q == IF e1 < Len(s) /\ SubSeq(s, p + 1, e1) \in {<<LF>>, <<CR, LF>>}
             THEN e1 ELSE p
        e == IF q >= Len(s) THEN q ELSE LineEnd(s, q + 1)
        chunk == SubSeq(s, q + 1, e)
    IN  [n |-> e - p, line |-> chunk, next |-> e, utf8 |-> Utf8Ok(chunk)]

\* read_line(s, p): the items from p+1 up to and including the next LF, or up
\* to the end of the input; n = 0 at the end of the input
read_line(s, p) ==
    LET e == IF p >= Len(s) THEN p ELSE LineEnd(s, p + 1)
        chunk == SubSeq(s, p + 1, e)
    IN  [n |-> e - p, line |-> chunk, next |-> e, utf8 |-> Utf8Ok(chunk)]

----------------------------------------------------------------------------
(* Grammar: src/src/parser/ply_grammar.rs *)

\* a slip: one blank is skipped, not a run of them
SkipSpace_one(chunk) ==
    IF chunk # << >> /\ IsSpace(Head(chunk)) THEN Tail(chunk) ELSE chunk

RECURSIVE SkipSpace(_)
\* rule space()?: the chunk without its leading blanks and tabs
SkipSpace(chunk) ==
    IF chunk # << >> /\ IsSpace(Head(chunk)) THEN SkipSpace(Tail(chunk)) ELSE chunk

\* rule line_break()? followed by the end of the input of the rule
line_break(chunk) == chunk \in { << >>, <<CR, LF>>, <<LF>>, <<CR>> }

\* a slip: the components are taken as they are written
version_unchecked(maj, min) == Version(maj, min)

\* rule version(): None when a component overflows u16 / u8
version(maj, min) ==
    IF maj <= 65535 /\ min <= 255 THEN Version(maj, min) ELSE NoVersion

\* rule format(): (Encoding, Option<Version>)
format(x) == [encoding |-> x.s, version |-> version(x.n, x.m)]

\* rules comment() and obj_info(): the blanks after the keyword are skipped,
\* the text runs to the line break and keeps its trailing blanks; a text of
\* blanks only is the empty string
text(x, trail) ==
    IF x.s = "" THEN Text(0, "", 0) ELSE Text(0, x.s, trail)

\* rule element(): None when the count does not fit
element(x) ==
    IF x.m = 0 THEN [some |-> TRUE, def |-> [ElementDef(x.s) EXCEPT !.count = x.n]]
    ELSE [some |-> FALSE, def |-> ElementDef(x.s)]

\* rules data_type() and property()
property(x) ==
    PropertyDef(x.s, IF x.a = "" THEN Scalar(x.b) ELSE List(x.a, x.b))

StatementKinds ==
    {"ply", "end_header", "format", "obj_info", "comment", "element", "property"}

\* a slip: every statement is taken for the magic number
is_magic_any(x) == TRUE

\* the match on Line::MagicNumber
is_magic(x) == x.t = "ply"

\* rule line(): trimmed_line() space()? line_break()?, the whole chunk
line(chunk) ==
    IF chunk = << >> \/ Head(chunk).t \notin StatementKinds
    THEN [ok |-> FALSE, stmt |-> Junk, trail |-> 0]
    ELSE LET rest == Tail(chunk)
             after == SkipSpace(rest)
         IN  [ok |-> line_break(after), stmt |-> Head(chunk),
              trail |-> Len(rest) - Len(after)]

----------------------------------------------------------------------------
(* Property values: src/src/ply/property.rs *)

\* a Property: the variant and its values (one value for a scalar variant)
Property(tag, v) == [tag |-> tag, v |-> v]

ScalarTag(ty) ==
    CASE ty = "char" -> "Char"     [] ty = "uchar" -> "UChar"
      [] ty = "short" -> "Short"   [] ty = "ushort" -> "UShort"
      [] ty = "int" -> "Int"       [] ty = "uint" -> "UInt"
      [] ty = "float" -> "Float"   [] ty = "double" -> "Double"

ListTag(ty) ==
    CASE ty = "char" -> "ListChar"     [] ty = "uchar" -> "ListUChar"
      [] ty = "short" -> "ListShort"   [] ty = "ushort" -> "ListUShort"
      [] ty = "int" -> "ListInt"       [] ty = "uint" -> "ListUInt"
      [] ty = "float" -> "ListFloat"   [] ty = "double" -> "ListDouble"

\* DefaultElement: src/src/ply/default_element.rs
new == EmptyMap
\* a slip: the decoded property is not kept in the row
set_property_lost(e, key, prop) == e

set_property(e, key, prop) == Insert(e, key, prop)

None == [some |-> FALSE, v |-> << >>]
Some(v) == [some |-> TRUE, v |-> v]

\* a slip: the getter returns the value whatever its kind
get_any(e, key, tag) ==
    IF key \in Keys(e) THEN Some(Get(e, key).v) ELSE None

\* get_char .. get_list_double, `tag` naming the variant the getter matches
get(e, key, tag) ==
    IF key \notin Keys(e) THEN None
    ELSE IF Get(e, key).tag = tag THEN Some(Get(e, key).v)
    ELSE None

\* a slip: float is taken for an integer kind
IsFloat_double_only(ty) == ty = "double"

IsFloat(ty) == ty \in {"float", "double"}
IsSigned(ty) == ty \in {"char", "short", "int"}

\* a slip: every scalar is read as one byte
Width_one(ty) == 1

\* size in bytes of a scalar on the wire
Width(ty) ==
    CASE ty \in {"char", "uchar"} -> 1
      [] ty \in {"short", "ushort"} -> 2
      [] ty \in {"int", "uint", "float"} -> 4
      [] ty = "double" -> 8

----------------------------------------------------------------------------
(* Binary decoding: byteorder's ReadBytesExt on the reader *)

RECURSIVE Unsigned(_)
\* the unsigned value of bytes given most significant first
Unsigned(bs) ==
    IF bs = << >> THEN 0
    ELSE Unsigned(SubSeq(bs, 1, Len(bs) - 1)) * 256 + bs[Len(bs)]

\* a slip: the sign bit is read as a value bit
Signed_as_unsigned(bs) == Unsigned(bs)

\* the two's complement value of bytes given most significant first
Signed(bs) ==
    Unsigned(<< IF bs[1] >= 128 THEN bs[1] - 256 ELSE bs[1] >> \o Tail(bs))

\* a slip: the bytes are taken in the order of the stream
Reverse_kept(bs) == bs

\* the bytes in the opposite order
Reverse(bs) == [i \in 1..Len(bs) |-> bs[Len(bs) + 1 - i]]

\* the value of the w bytes behind position p; a float or double is
\* kept as its bit pattern, most significant byte first
Decode(s, p, ty, big) ==
    LET raw == [i \in 1..Width(ty) |-> s[p + i].n]
        bs == IF big THEN raw ELSE Reverse(raw)
    IN  IF IsFloat(ty) THEN <<1>> \o bs
        ELSE IF IsSigned(ty) THEN Signed(bs)
        ELSE Unsigned(bs)

\* read_i8 .. read_f64: read_exact of the width, then the conversion
read_scalar(s, p, ty, big) ==
    IF p + Width(ty) > Len(s)
    THEN [ok |-> FALSE, pos |-> Len(s), val |-> 0,
          err |-> Io("UnexpectedEof", "failed to fill whole buffer")]
    ELSE [ok |-> TRUE, pos |-> p + Width(ty), val |-> Decode(s, p, ty, big),
          err |-> NoError]

RECURSIVE read_binary_list(_, _, _, _, _, _)
\* __read_binary_list: count values, any failure rewritten as a Parse error
read_binary_list(s, p, ty, big, count, out) ==
    IF Len(out) = count
    THEN [ok |-> TRUE, pos |-> p, vals |-> out, err |-> NoError]
    ELSE LET r == read_scalar(s, p, ty, big)
         IN  IF ~r.ok
             THEN [ok |-> FALSE, pos |-> r.pos, vals |-> out,
                   err |-> Quoting(r.err, Parse("Couldn't find a list element at index."))]
             ELSE read_binary_list(s, r.pos, ty, big, count, Append(out, r.val))

NoProperty == Property("", << >>)

\* __read_binary_property
read_binary_property(s, p, data_type, big) ==
    IF data_type.kind = "Scalar"
    THEN LET r == read_scalar(s, p, data_type.elem, big)
         IN  [ok |-> r.ok, pos |-> r.pos, err |-> r.err,
              prop |-> IF r.ok THEN Property(ScalarTag(data_type.elem), <<r.val>>)
                       ELSE NoProperty]
    ELSE IF IsFloat(data_type.index)
    THEN [ok |-> FALSE, pos |-> p, prop |-> NoProperty,
          err |-> Parse("Index of list must be an integer type.")]
    ELSE LET c == read_scalar(s, p, data_type.index, big)
         IN  IF ~c.ok
             THEN [ok |-> FALSE, pos |-> c.pos, prop |-> NoProperty, err |-> c.err]
             ELSE IF c.val < 0
             THEN [ok |-> FALSE, pos |-> c.pos, prop |-> NoProperty,
                   err |-> Parse("List length cannot be negative.")]
             ELSE LET l == read_binary_list(s, c.pos, data_type.elem, big, c.val, << >>)
                  IN  [ok |-> l.ok, pos |-> l.pos, err |-> l.err,
                       prop |-> IF l.ok THEN Property(ListTag(data_type.elem), l.vals)
                                ELSE NoProperty]

RECURSIVE read_binary_element(_, _, _, _, _, _)
\* __read_binary_element: the properties k+1.. of the row, in declared order
read_binary_element(s, p, props, big, k, raw_element) ==
    IF k = Len(props)
    THEN [ok |-> TRUE, pos |-> p, elem |-> raw_element, err |-> NoError]
    ELSE LET r == read_binary_property(s, p, props[k + 1].value.data_type, big)
         IN  IF ~r.ok
             THEN [ok |-> FALSE, pos |-> r.pos, elem |-> raw_element, err |-> r.err]
             ELSE read_binary_element(s, r.pos, props, big, k + 1,
                                      set_property(raw_element, props[k + 1].key, r.prop))

----------------------------------------------------------------------------
(* ASCII decoding *)

\* rule trimmed_data_line() space()? line_break()?: the tokens of the chunk
\* behind its leading blanks, separated by blanks.  The chunk is a line
\* break or starts with a token, and behind every token comes the line
\* break, or blanks and then the line break or the next token
data_tokens(chunk, acc) ==
    LET follows(i) ==
            LET rest == SubSeq(chunk, i + 1, Len(chunk))
                after == SkipSpace(rest)
            IN  IF after = rest THEN line_break(rest)
                ELSE line_break(after) \/ Head(after).t = "num"
    IN  [ok |-> /\ line_break(chunk) \/ Head(chunk).t = "num"
                /\ \A i \in 1..Len(chunk) : chunk[i].t = "num" => follows(i),
         toks |-> acc \o SelectSeq(chunk, LAMBDA x : x.t = "num")]

\* rule data_line()
data_line(chunk) == data_tokens(SkipSpace(chunk), << >>)

\* the number a token denotes, for a token without fraction or exponent
TokenValue(x) == IF x.s = "-" THEN 0 - x.n ELSE x.n

MinOf(ty) ==
    CASE ty = "char" -> -128  [] ty = "short" -> -32768
      [] ty = "int" -> -2147483647 - 1  [] OTHER -> 0

\* the largest value of the kind; the magnitudes of the model stay below
\* 2^31, so that of uint and usize is the largest number of the model
MaxOf(ty) ==
    CASE ty = "char" -> 127  [] ty = "uchar" -> 255
      [] ty = "short" -> 32767  [] ty = "ushort" -> 65535
      [] OTHER -> 2147483647

\* whether the token is the one beyond the numbers of the model
IsWide(x) == x.a = "usize::MAX"

\* str::parse::<D>() on one token: an integer kind takes an optional sign
\* and digits only ("-" only when signed) and checks the range; a float
\* kind takes every token of the grammar.  A float value is kept as
\* <<e, k>> for k/2 * 2^e.  `wide` says that the value is 2^64 - 1, which
\* only usize holds; val is not the value then
from_str(x, ty) ==
    IF IsFloat(ty)
    THEN [ok |-> TRUE, wide |-> FALSE,
          val |-> IF IsWide(x) THEN <<64, 2>>
                  ELSE <<0, IF x.s = "-" THEN 0 - (2 * x.n + x.m) ELSE 2 * x.n + x.m>>]
    ELSE [ok |-> /\ x.m = 0
                 /\ (x.s = "-" => IsSigned(ty))
                 /\ IsWide(x) => ty = "usize"
                 /\ TokenValue(x) >= MinOf(ty)
                 /\ TokenValue(x) <= MaxOf(ty),
          wide |-> IsWide(x),
          val |-> TokenValue(x)]

\* Parser::parse
parse(x, ty) ==
    LET r == from_str(x, ty)
    IN  [ok |-> r.ok, val |-> r.val, wide |-> r.wide,
         err |-> IF r.ok THEN NoError ELSE Parse("Parse error.")]

\* Vec::<D>::with_capacity(count) panics with "capacity overflow" when
\* count * size_of::<D>() is beyond isize::MAX, as it is for the largest
\* usize and every D; the numbers of the model stay far below
capacity_overflow(wide) == wide

\* the loop of __read_ascii_list: the next count tokens behind token k.
\* The loop ends at the first turn that finds no token or a token that
\* does not parse
read_ascii_list(toks, k, ty, count, out) ==
    LET need == count - Len(out)
        left == IF Len(toks) > k THEN Len(toks) - k ELSE 0
        turns == IF need <= left THEN need ELSE left + 1
        ends == { i \in 1..turns : i > left \/ ~from_str(toks[k + i], ty).ok }
        first == CHOOSE i \in ends : \A j \in ends : i <= j
        pushed(n) == out \o [i \in 1..n |-> from_str(toks[k + i], ty).val]
    IN  IF ends = {}
        THEN [ok |-> TRUE, next |-> k + need, vals |-> pushed(need), err |-> NoError]
        ELSE IF first > left
        THEN [ok |-> FALSE, next |-> k + first - 1, vals |-> pushed(first - 1),
              err |-> Parse("Expected list elements, but found only some.")]
        ELSE [ok |-> FALSE, next |-> k + first, vals |-> pushed(first - 1),
              err |-> Parse("Couldn't parse element at index.")]

\* a slip: the length of a list is parsed as the declared index kind
read_ascii_property_indexed(toks, k, data_type) ==
    IF k >= Len(toks)
    THEN [ok |-> FALSE, panic |-> FALSE, next |-> k, prop |-> NoProperty,
          err |-> Parse("Expected element of type, but found nothing.")]
    ELSE IF data_type.kind = "Scalar"
    THEN LET r == parse(toks[k + 1], data_type.elem)
         IN  [ok |-> r.ok, panic |-> FALSE, next |-> k + 1, err |-> r.err,
              prop |-> IF r.ok THEN Property(ScalarTag(data_type.elem), <<r.val>>)
                       ELSE NoProperty]
    ELSE LET c == parse(toks[k + 1], IF IsFloat(data_type.index) THEN "usize"
                                     ELSE data_type.index)
         IN  IF ~c.ok
             THEN [ok |-> FALSE, panic |-> FALSE, next |-> k + 1,
                   prop |-> NoProperty, err |-> c.err]
             ELSE IF capacity_overflow(c.wide)
             THEN [ok |-> FALSE, panic |-> TRUE, next |-> k + 1,
                   prop |-> NoProperty, err |-> NoError]
             ELSE LET l == read_ascii_list(toks, k + 1, data_type.elem, c.val, << >>)
                  IN  [ok |-> l.ok, panic |-> FALSE, next |-> l.next, err |-> l.err,
                       prop |-> IF l.ok THEN Property(ListTag(data_type.elem), l.vals)
                                ELSE NoProperty]

\* __read_ascii_property: the tokens behind token k; `panic` when the call
\* does not return
read_ascii_property(toks, k, data_type) ==
    IF k >= Len(toks)
    THEN [ok |-> FALSE, panic |-> FALSE, next |-> k, prop |-> NoProperty,
          err |-> Parse("Expected element of type, but found nothing.")]
    ELSE IF data_type.kind = "Scalar"
    THEN LET r == parse(toks[k + 1], data_type.elem)
         IN  [ok |-> r.ok, panic |-> FALSE, next |-> k + 1, err |-> r.err,
              prop |-> IF r.ok THEN Property(ScalarTag(data_type.elem), <<r.val>>)
                       ELSE NoProperty]
    ELSE LET c == parse(toks[k + 1], "usize")
         IN  IF ~c.ok
             THEN [ok |-> FALSE, panic |-> FALSE, next |-> k + 1,
                   prop |-> NoProperty, err |-> c.err]
             ELSE IF capacity_overflow(c.wide)
             THEN [ok |-> FALSE, panic |-> TRUE, next |-> k + 1,
                   prop |-> NoProperty, err |-> NoError]
             ELSE LET l == read_ascii_list(toks, k + 1, data_type.elem, c.val, << >>)
                  IN  [ok |-> l.ok, panic |-> FALSE, next |-> l.next, err |-> l.err,
                       prop |-> IF l.ok THEN Property(ListTag(data_type.elem), l.vals)
                                ELSE NoProperty]

RECURSIVE read_ascii_properties(_, _, _, _)
\* the loop of read_ascii_element over the declared properties
read_ascii_properties(toks, k, props, vals) ==
    IF Len(vals) = Len(props)
    THEN [ok |-> TRUE, panic |-> FALSE, elem |-> vals, err |-> NoError]
    ELSE LET pd == props[Len(vals) + 1]
             r == read_ascii_property(toks, k, pd.value.data_type)
         IN  IF ~r.ok
             THEN [ok |-> FALSE, panic |-> r.panic, elem |-> vals, err |-> r.err]
             ELSE read_ascii_properties(toks, r.next, props,
                                        set_property(vals, pd.key, r.prop))

\* a slip: a line that holds more tokens than the element has properties
\* is refused
read_ascii_element_exact(chunk, element_def) ==
    LET d == data_line(chunk)
    IN  IF ~d.ok \/ Len(d.toks) > Len(element_def.properties)
        THEN [ok |-> FALSE, panic |-> FALSE, elem |-> new,
              err |-> Parse("Couldn't parse element line.")]
        ELSE read_ascii_properties(d.toks, 0, element_def.properties, new)

\* read_ascii_element
read_ascii_element(chunk, element_def) ==
    LET d == data_line(chunk)
    IN  IF ~d.ok
        THEN [ok |-> FALSE, panic |-> FALSE, elem |-> new,
              err |-> Parse("Couldn't parse element line.")]
        ELSE read_ascii_properties(d.toks, 0, element_def.properties, new)

----------------------------------------------------------------------------
(* Header and Ply: src/src/ply/ply_data_structure.rs *)

Header(encoding, ver, obj_infos, comments, elements) ==
    [encoding |-> encoding, version |-> ver, obj_infos |-> obj_infos,
     comments |-> comments, elements |-> elements]

NoHeader == Header("", NoVersion, << >>, << >>, EmptyMap)

Ply(h, p) == [header |-> h, payload |-> p]

NoPly == Ply(NoHeader, EmptyMap)

NoFormat == [encoding |-> "", version |-> NoVersion]

----------------------------------------------------------------------------
(* __read_header: src/src/parser/mod.rs *)

\* a slip: only the encodings of the two format lines are compared
contradicts_encoding_only(f, t) == f.encoding # t.encoding

\* the test `f != t` on a later format line
contradicts(f, t) == f # t

\* the match on one parsed line in the loop of __read_header: the PlyError
\* it returns (NoError to go on), and the locals after it
header_line(l, form_ver, obj_infos, elements, comments) ==
    LET x == l.stmt
        keep == [err |-> NoError, form_ver |-> form_ver, obj_infos |-> obj_infos,
                 elements |-> elements, comments |-> comments]
    IN  CASE x.t = "ply" ->
               [keep EXCEPT !.err = parse_ascii_error("Unexpected 'ply' found.")]
          [] x.t = "format" ->
               IF form_ver # NoFormat
               THEN IF contradicts(form_ver, format(x))
                    THEN [keep EXCEPT !.err =
                            parse_ascii_error("Found contradicting format definition")]
                    ELSE IF form_ver.version = NoVersion
                    THEN [keep EXCEPT !.err = parse_ascii_error("Invalid version")]
                    ELSE keep
               ELSE [keep EXCEPT !.form_ver = format(x)]
          [] x.t = "obj_info" ->
               [keep EXCEPT !.obj_infos = Append(obj_infos, text(x, l.trail))]
          [] x.t = "comment" ->
               [keep EXCEPT !.comments = Append(comments, text(x, l.trail))]
          [] x.t = "element" ->
               IF element(x).some
               THEN [keep EXCEPT !.elements = add(elements, element(x).def)]
               ELSE [keep EXCEPT !.err = parse_ascii_error("Invalid element")]
          [] x.t = "property" ->
               IF is_empty(elements)
               THEN [keep EXCEPT !.err =
                       parse_ascii_error("Property found without preceding element.")]
               ELSE LET e == PopValue(elements)
                        e2 == [e EXCEPT !.properties = add(e.properties, property(x))]
                    IN  [keep EXCEPT !.elements = add(PopRest(elements), e2)]
          [] x.t = "end_header" -> keep

\* the end of __read_header, behind the loop
header_result(form_ver, obj_infos, elements, comments) ==
    IF form_ver = NoFormat
    THEN [err |-> Parse("No format line found."), header |-> NoHeader]
    ELSE IF form_ver.version = NoVersion
    THEN [err |-> Parse("Invalid version number."), header |-> NoHeader]
    ELSE [err |-> NoError,
          header |-> Header(form_ver.encoding, form_ver.version, obj_infos,
                            comments, elements)]

\* a call returns Err(e)
Fail(e) ==
    /\ pc' = "failed"
    /\ result' = "err"
    /\ err' = e

\* a panic unwinds out of the call: nothing is returned
Panic ==
    /\ pc' = "panicked"
    /\ result' = "panic"
    /\ err' = NoError

\* the first line of __read_header
ReadMagic ==
    /\ pc = "magic"
    /\ LET r == read_line(src, pos)
           l == line(r.line)
       IN  /\ pos' = r.next
           /\ IF ~r.utf8
              THEN Fail(Io("InvalidData", "stream did not contain valid UTF-8"))
                   /\ line_index' = line_index + 1
              ELSE IF r.n = 0
              THEN Fail(Io("UnexpectedEof",
                           "Unexpected end of file while reading magic number."))
                   /\ line_index' = line_index + 1
              ELSE IF ~l.ok
              THEN Fail(parse_ascii_rethrow("Expected magic number 'ply'."))
                   /\ line_index' = line_index + 1
              ELSE IF ~is_magic(l.stmt)
              THEN Fail(parse_ascii_error("Expected magic number 'ply', but saw another line."))
                   /\ line_index' = line_index + 1
              ELSE /\ pc' = "header"
                   /\ line_index' = line_index + 2
                   /\ UNCHANGED << result, err >>
    /\ header_form_ver' = NoFormat
    /\ header_obj_infos' = << >>
    /\ header_elements' = EmptyMap
    /\ header_comments' = << >>
    /\ UNCHANGED << written, consistent, wresult, src, header, payload, ei, elems, ply >>

\* one turn of the loop 'readlines of __read_header; on end_header the rest
\* of __read_header, and in read_ply the start of __read_payload
ReadHeaderLine ==
    /\ pc = "header"
    /\ LET r == read_line(src, pos)
           l == line(r.line)
           st == header_line(l, header_form_ver, header_obj_infos,
                             header_elements, header_comments)
           fin == header_result(header_form_ver, header_obj_infos,
                                header_elements, header_comments)
           locals == << header_form_ver, header_obj_infos, header_elements,
                        header_comments >>
       IN  /\ pos' = r.next
           /\ IF ~r.utf8
              THEN Fail(Io("InvalidData", "stream did not contain valid UTF-8"))
                   /\ UNCHANGED << locals, line_index, header, payload >>
              ELSE IF r.n = 0
              THEN Fail(Parse("Unexpected end of file while reading header (missing 'end_header')."))
                   /\ UNCHANGED << locals, line_index, header, payload >>
              ELSE IF ~l.ok
              THEN Fail(parse_ascii_rethrow("Couldn't parse line."))
                   /\ UNCHANGED << locals, line_index, header, payload >>
              ELSE IF st.err # NoError
              THEN Fail(st.err)
                   /\ UNCHANGED << locals, line_index, header, payload >>
              ELSE IF l.stmt.t # "end_header"
              THEN /\ header_form_ver' = st.form_ver
                   /\ header_obj_infos' = st.obj_infos
                   /\ header_elements' = st.elements
                   /\ header_comments' = st.comments
                   /\ line_index' = line_index + 1
                   /\ UNCHANGED << pc, result, err, header, payload >>
              ELSE IF fin.err # NoError
              THEN Fail(fin.err)
                   /\ line_index' = line_index + 1
                   /\ UNCHANGED << locals, header, payload >>
              ELSE /\ header' = fin.header
                   /\ payload' = EmptyMap
                   /\ pc' = "payload"
                   /\ line_index' = line_index + 1
                   /\ UNCHANGED << locals, result, err >>
    /\ UNCHANGED << written, consistent, wresult, src, ei, elems, ply >>

----------------------------------------------------------------------------
(* __read_payload and the per-element readers: src/src/parser/mod.rs *)

\* the element definition the loop of __read_payload is at
element_def == header.elements[ei + 1].value

\* the map_err of __read_binary_payload_for_element: an UnexpectedEof I/O
\* error is rewritten to name the element and its row counts
map_err(e, def, i) ==
    IF e.cat = "Io" /\ e.kind = "UnexpectedEof"
    THEN Quoting(e, PlyError("Io", "UnexpectedEof",
                             "Unexpected end of file while reading binary element",
                             def.name, def.count, i))
    ELSE e

\* a slip: the loop stops one row early
rows_left_short(def, n) == n + 1 < def.count

\* `for i in 0..element_def.count` with n rows read: another turn follows
rows_left(def, n) == n < def.count

\* the loop of __read_payload takes the next element of the header
BeginElement ==
    /\ pc = "payload"
    /\ ei < Len(header.elements)
    /\ pc' = "rows"
    /\ elems' = << >>
    /\ line_index' = IF header.encoding = "ascii" THEN line_index ELSE line_index + 1
    /\ UNCHANGED << written, consistent, wresult, src, pos, header_form_ver, header_obj_infos, header_elements,
                    header_comments, header, payload, ei, result, ply, err >>

\* one turn of the loop of __read_ascii_payload_for_element
ReadAsciiRow ==
    /\ pc = "rows"
    /\ header.encoding = "ascii"
    /\ rows_left(element_def, Len(elems))
    /\ LET r == read_line(src, pos)
           e == read_ascii_element(r.line, element_def)
       IN  /\ pos' = r.next
           /\ IF ~r.utf8
              THEN Fail(Io("InvalidData", "stream did not contain valid UTF-8"))
                   /\ UNCHANGED << elems, line_index >>
              ELSE IF r.n = 0
              THEN Fail(PlyError("Io", "UnexpectedEof",
                                 "Unexpected end of file while reading element",
                                 element_def.name, element_def.count, Len(elems)))
                   /\ UNCHANGED << elems, line_index >>
              ELSE IF e.panic
              THEN Panic /\ UNCHANGED << elems, line_index >>
              ELSE IF ~e.ok
              THEN Fail(parse_ascii_rethrow("Couldn't read element line."))
                   /\ UNCHANGED << elems, line_index >>
              ELSE /\ elems' = Append(elems, e.elem)
                   /\ line_index' = line_index + 1
                   /\ UNCHANGED << pc, result, err >>
    /\ UNCHANGED << written, consistent, wresult, src, header_form_ver, header_obj_infos, header_elements,
                    header_comments, header, payload, ei, ply >>

\* one turn of the loop of __read_binary_payload_for_element
ReadBinaryRow ==
    /\ pc = "rows"
    /\ header.encoding # "ascii"
    /\ rows_left(element_def, Len(elems))
    /\ LET r == read_binary_element(src, pos, element_def.properties,
                                    header.encoding = "binary_big_endian", 0, new)
       IN  /\ pos' = r.pos
           /\ IF ~r.ok
              THEN Fail(map_err(r.err, element_def, Len(elems)))
                   /\ UNCHANGED << elems, line_index >>
              ELSE /\ elems' = Append(elems, r.elem)
                   /\ line_index' = line_index + 1
                   /\ UNCHANGED << pc, result, err >>
    /\ UNCHANGED << written, consistent, wresult, src, header_form_ver, header_obj_infos, header_elements,
                    header_comments, header, payload, ei, ply >>

\* the rows of the element are read: payload.insert(key, elems)
EndElement ==
    /\ pc = "rows"
    /\ ~rows_left(element_def, Len(elems))
    /\ payload' = Insert(payload, header.elements[ei + 1].key, elems)
    /\ ei' = ei + 1
    /\ pc' = "payload"
    /\ UNCHANGED << written, consistent, wresult, src, pos, line_index, header_form_ver, header_obj_infos,
                    header_elements, header_comments, header, elems, result,
                    ply, err >>

\* the end of read_ply: Ok(ply)
Return ==
    /\ pc = "payload"
    /\ ei = Len(header.elements)
    /\ ply' = Ply(header, payload)
    /\ result' = "ok"
    /\ pc' = "done"
    /\ UNCHANGED << written, consistent, wresult, src, pos, line_index, header_form_ver, header_obj_infos,
                    header_elements, header_comments, header, payload, ei,
                    elems, err >>

----------------------------------------------------------------------------
(* read_header as a function of the input *)

RECURSIVE header_loop(_, _, _, _, _, _)
\* the loop 'readlines of __read_header from position p, and its end
header_loop(s, p, form_ver, obj_infos, elements, comments) ==
    LET r == read_line(s, p)
        l == line(r.line)
        st == header_line(l, form_ver, obj_infos, elements, comments)
        fin == header_result(form_ver, obj_infos, elements, comments)
        failed(e) == [ok |-> FALSE, header |-> NoHeader, pos |-> r.next, err |-> e]
    IN  IF ~r.utf8
        THEN failed(Io("InvalidData", "stream did not contain valid UTF-8"))
        ELSE IF r.n = 0
        THEN failed(Parse("Unexpected end of file while reading header (missing 'end_header')."))
        ELSE IF ~l.ok THEN failed(parse_ascii_rethrow("Couldn't parse line."))
        ELSE IF st.err # NoError THEN failed(st.err)
        ELSE IF l.stmt.t # "end_header"
        THEN header_loop(s, r.next, st.form_ver, st.obj_infos, st.elements, st.comments)
        ELSE IF fin.err # NoError THEN failed(fin.err)
        ELSE [ok |-> TRUE, header |-> fin.header, pos |-> r.next, err |-> NoError]

\* a slip: the header is read through a buffer of its own, as read_ply_header
\* does, and the buffer has taken the whole input
read_header_buffered(s) ==
    LET r == read_line(s, 0)
        h == header_loop(s, r.next, NoFormat, << >>, EmptyMap, << >>)
    IN  IF r.utf8 /\ r.n # 0 /\ line(r.line).ok /\ is_magic(line(r.line).stmt)
        THEN [h EXCEPT !.pos = Len(s)]
        ELSE [ok |-> FALSE, header |-> NoHeader, pos |-> Len(s), err |-> Parse("")]

\* Parser::read_header on the input s
read_header(s) ==
    LET r == read_line(s, 0)
        l == line(r.line)
        failed(e) == [ok |-> FALSE, header |-> NoHeader, pos |-> r.next, err |-> e]
    IN  IF ~r.utf8
        THEN failed(Io("InvalidData", "stream did not contain valid UTF-8"))
        ELSE IF r.n = 0
        THEN failed(Io("UnexpectedEof",
                       "Unexpected end of file while reading magic number."))
        ELSE IF ~l.ok THEN failed(parse_ascii_rethrow("Expected magic number 'ply'."))
        ELSE IF ~is_magic(l.stmt)
        THEN failed(parse_ascii_error("Expected magic number 'ply', but saw another line."))
        ELSE header_loop(s, r.next, NoFormat, << >>, EmptyMap, << >>)

RECURSIVE payload_for_element(_, _, _, _, _)
\* __read_ascii_payload_for_element and __read_binary_payload_for_element
\* from position p with the rows `rows` read
payload_for_element(s, p, encoding, def, rows) ==
    LET failed(q) == [ok |-> FALSE, panic |-> FALSE, pos |-> q, rows |-> << >>]
    IN  IF ~rows_left(def, Len(rows))
        THEN [ok |-> TRUE, panic |-> FALSE, pos |-> p, rows |-> rows]
        ELSE IF encoding = "ascii"
        THEN LET r == read_line(s, p)
                 e == read_ascii_element(r.line, def)
             IN  IF ~r.utf8 \/ r.n = 0 THEN failed(r.next)
                 ELSE IF e.panic THEN [failed(r.next) EXCEPT !.panic = TRUE]
                 ELSE IF ~e.ok THEN failed(r.next)
                 ELSE payload_for_element(s, r.next, encoding, def, Append(rows, e.elem))
        ELSE LET r == read_binary_element(s, p, def.properties,
                                          encoding = "binary_big_endian", 0, new)
             IN  IF ~r.ok THEN failed(r.pos)
                 ELSE payload_for_element(s, r.pos, encoding, def, Append(rows, r.elem))

RECURSIVE read_payload(_, _, _, _, _)
\* Parser::read_payload with the header h on the input s from position p,
\* at the turn i of the loop of __read_payload with `filled` inserted
read_payload(s, p, h, i, filled) ==
    IF i = Len(h.elements)
    THEN [ok |-> TRUE, panic |-> FALSE, pos |-> p, payload |-> filled]
    ELSE LET r == payload_for_element(s, p, h.encoding, h.elements[i + 1].value, << >>)
         IN  IF ~r.ok
             THEN [ok |-> FALSE, panic |-> r.panic, pos |-> r.pos, payload |-> EmptyMap]
             ELSE read_payload(s, r.pos, h, i + 1,
                               Insert(filled, h.elements[i + 1].key, r.rows))

----------------------------------------------------------------------------
(* The inputs of the model *)

MaxDecls == 5       \* element and property lines of a generated header
MaxFormats == 2     \* format lines of a generated header
MaxBytes == 4       \* bytes of a generated binary payload
MaxLines == 2       \* lines of a generated ASCII payload

SeqsUpTo(S, n) == UNION { [1..k -> S] : k \in 0..n }

RECURSIVE Lines(_, _)
\* the statements, each followed by the line terminator eol
Lines(stmts, eol) ==
    IF stmts = << >> THEN << >>
    ELSE <<Head(stmts)>> \o eol \o Lines(Tail(stmts), eol)

RECURSIVE Concat(_)
Concat(ss) == IF ss = << >> THEN << >> ELSE Head(ss) \o Concat(Tail(ss))

Eols == { <<LF>>, <<CR, LF>>, <<CR>> }

One == Num("", 1, 0)

\* headers that differ in their element and property lines, followed by
\* enough ASCII rows for every element, or by none
DeclPool ==
    { ElementLn("a", 1, 0), ElementLn("b", 2, 0),
      PropertyLn("x", "", "char"), PropertyLn("y", "", "uchar") }

DeclInputs ==
    { Lines(<<MagicNumber, FormatLn("ascii", 1, 0)>> \o d \o <<EndHeaderLn>>, <<LF>>)
        \o Concat([i \in 1..k |-> <<One, SP, One, LF>>])
      : d \in SeqsUpTo(DeclPool, MaxDecls), k \in {0, 3} }

\* headers that differ in their format lines, their line terminator and
\* their end, followed by one byte or none
FormatPool ==
    { FormatLn("ascii", 1, 0), FormatLn("binary_little_endian", 1, 0),
      FormatLn("ascii", 1, 1), FormatLn("ascii", 70000, 0),
      FormatLn("ascii", 1, 256) }

Tails ==
    { <<EndHeaderLn>>,
      <<CommentLn("hi", 0), ElementLn("a", 1, 0), PropertyLn("x", "", "char"), EndHeaderLn>>,
      << >>,
      <<ObjInfoLn("", 0)>>,
      <<ElementLn("a", 1, 0)>> }

FormatInputs ==
    { Lines(<<MagicNumber>> \o f \o t, eol) \o b
      : f \in SeqsUpTo(FormatPool, MaxFormats), t \in Tails, eol \in Eols,
        b \in { << >>, <<Byte(1)>> } }

\* binary payloads: one element, its properties, and every short payload
\* over a small alphabet of bytes
ByteAlphabet == {0, 1, 255}

BinaryShapes ==
    { <<PropertyLn("x", "", "char")>>,
      <<PropertyLn("x", "", "short")>>,
      <<PropertyLn("l", "char", "uchar")>>,
      <<PropertyLn("l", "short", "uchar")>>,
      <<PropertyLn("l", "uchar", "short")>>,
      <<PropertyLn("l", "int", "char")>>,
      <<PropertyLn("l", "float", "int")>>,
      <<PropertyLn("x", "", "uchar"), PropertyLn("l", "double", "char")>>,
      <<PropertyLn("x", "", "short"), PropertyLn("l", "char", "uchar")>>,
      <<PropertyLn("x", "", "uchar"), PropertyLn("l", "uchar", "uchar")>> }

BinaryInputs ==
    { Lines(<<MagicNumber, FormatLn(enc, 1, 0), ElementLn("a", n, 0)>> \o sh
              \o <<EndHeaderLn>>, <<LF>>)
        \o [i \in 1..Len(b) |-> Byte(b[i])]
      : enc \in {"binary_little_endian", "binary_big_endian"}, n \in {1, 2},
        sh \in BinaryShapes, b \in SeqsUpTo(ByteAlphabet, MaxBytes) }

\* ASCII payloads: one element, its properties, and a few data lines
AsciiShapes ==
    { <<PropertyLn("x", "", "int"), PropertyLn("y", "", "uint")>>,
      <<PropertyLn("x", "", "uchar")>>,
      <<PropertyLn("l", "uchar", "int")>>,
      <<PropertyLn("l", "float", "int")>>,
      << >> }

\* a line that announces 300 values, more than a list index of the kind
\* uchar can hold, and holds them
LongList ==
    [i \in 1..601 |-> IF i = 1 THEN Num("", 300, 0) ELSE IF i % 2 = 0 THEN SP ELSE One]

DataLines ==
    { << >>,
      <<SP, TAB>>,
      <<One>>,
      <<SP, Num("-", 7, 0), TAB, SP, Num("", 5, 0), SP>>,
      <<Num("", 2, 0), SP, One, SP, One>>,
      <<Num("", 300, 0)>>,
      <<Num("", 1, 1)>>,
      <<UsizeMax>>,
      <<Junk>> }

AsciiInputs ==
    { Lines(<<MagicNumber, FormatLn("ascii", 1, 0), ElementLn("a", n, 0)>> \o sh
              \o <<EndHeaderLn>>, <<LF>>)
        \o Concat([i \in 1..Len(d) |-> d[i] \o eol])
      : n \in {1, 2}, sh \in AsciiShapes, d \in SeqsUpTo(DataLines, MaxLines),
        eol \in { <<LF>>, <<CR, LF>>, << >> } }

\* first lines that are the magic number and first lines that are not,
\* with and without a terminator, and what follows them
Firsts ==
    { <<MagicNumber>>, <<MagicNumber, SP, TAB>>, <<SP, MagicNumber>>,
      <<MagicNumber, SP, Junk>>, <<Junk>>, <<FormatLn("ascii", 1, 0)>>,
      <<EndHeaderLn>>, << >>, <<Byte(255)>> }

Rests ==
    { << >>,
      Lines(<<FormatLn("ascii", 1, 0), EndHeaderLn>>, <<LF>>),
      Lines(<<MagicNumber, FormatLn("ascii", 1, 0), EndHeaderLn>>, <<LF>>),
      Lines(<<FormatLn("ascii", 1, 0), CommentLn("hi", 0), MagicNumber, EndHeaderLn>>,
            <<CR, LF>>) }

MagicInputs ==
    { f \o eol \o r : f \in Firsts, eol \in Eols \cup {<< >>}, r \in Rests }

\* one row of every shape read from the line of 300 values
LongInputs ==
    { Lines(<<MagicNumber, FormatLn("ascii", 1, 0), ElementLn("a", 1, 0)>> \o sh
              \o <<EndHeaderLn>>, <<LF>>)
        \o LongList \o eol
      : sh \in AsciiShapes, eol \in { <<LF>>, <<CR, LF>>, << >> } }

Inputs ==
    DeclInputs \cup FormatInputs \cup BinaryInputs \cup AsciiInputs \cup MagicInputs
        \cup LongInputs

----------------------------------------------------------------------------
(* read_ply on one input *)

Init ==
    /\ src \in Inputs
    /\ pos = 0
    /\ pc = "magic"
    /\ line_index = 0
    /\ header_form_ver = NoFormat
    /\ header_obj_infos = << >>
    /\ header_elements = EmptyMap
    /\ header_comments = << >>
    /\ header = NoHeader
    /\ payload = EmptyMap
    /\ ei = 0
    /\ elems = << >>
    /\ result = "none"
    /\ ply = NoPly
    /\ err = NoError
    /\ written = NoPly
    /\ consistent = FALSE
    /\ wresult = "none"

Next ==
    \/ ReadMagic
    \/ ReadHeaderLine
    \/ BeginElement
    \/ ReadAsciiRow
    \/ ReadBinaryRow
    \/ EndElement
    \/ Return

Spec == Init /\ [][Next]_vars

----------------------------------------------------------------------------
(* Equality of the data model: the derived PartialEq, a KeyMap as IndexMap *)

\* IndexMap's PartialEq: the same keys with equal values, in any order
SameKeys(m1, m2) == Len(m1) = Len(m2) /\ Keys(m1) = Keys(m2)

\* KeyMap<PropertyDef> and KeyMap<Property>: the values compare field by field
KeyMapEq(m1, m2) ==
    /\ SameKeys(m1, m2)
    /\ \A k \in Keys(m1) : Get(m1, k) = Get(m2, k)

ElementDefEq(d1, d2) ==
    /\ d1.name = d2.name
    /\ d1.count = d2.count
    /\ KeyMapEq(d1.properties, d2.properties)

\* KeyMap<ElementDef>
ElementsEq(m1, m2) ==
    /\ SameKeys(m1, m2)
    /\ \A k \in Keys(m1) : ElementDefEq(Get(m1, k), Get(m2, k))

HeaderEq(h1, h2) ==
    /\ h1.encoding = h2.encoding
    /\ h1.version = h2.version
    /\ h1.obj_infos = h2.obj_infos
    /\ h1.comments = h2.comments
    /\ ElementsEq(h1.elements, h2.elements)

DefaultElementEq(e1, e2) == KeyMapEq(e1, e2)

\* Vec<DefaultElement>
RowsEq(r1, r2) ==
    /\ Len(r1) = Len(r2)
    /\ \A i \in 1..Len(r1) : DefaultElementEq(r1[i], r2[i])

\* Payload<DefaultElement>
PayloadEq(p1, p2) ==
    /\ SameKeys(p1, p2)
    /\ \A k \in Keys(p1) : RowsEq(Get(p1, k), Get(p2, k))

----------------------------------------------------------------------------
(* Consistency pass and writer, after sections 4.3 and 7 of the specification *)

\* a comment or obj_info text with a line terminator in it
Broken == "hi\nyou"

HasLineBreak(t) == t.body = Broken

Inconsistent(msg) == PlyError("Inconsistent", "", msg, "", 0, 0)

\* the rows the payload holds for the element stored under k
RowsOf(p, k) == IF k \in Keys(p) THEN Get(p, k) ELSE << >>

\* a slip: the rows are added to the declared count
make_consistent_adding(v) ==
    LET els == v.header.elements
    IN  [ok |-> TRUE, err |-> NoError,
         ply |-> [v EXCEPT !.header.elements =
                    [i \in 1..Len(els) |->
                       [key |-> els[i].key,
                        value |-> [els[i].value EXCEPT
                                     !.count = els[i].value.count
                                                 + Len(RowsOf(v.payload, els[i].key))]]]]]

\* a slip: the texts are not looked at, only the counts are set
make_consistent_counts_only(v) ==
    LET els == v.header.elements
    IN  [ok |-> TRUE, err |-> NoError,
         ply |-> [v EXCEPT !.header.elements =
                    [i \in 1..Len(els) |->
                       [key |-> els[i].key,
                        value |-> [els[i].value EXCEPT
                                     !.count = Len(RowsOf(v.payload, els[i].key))]]]]]

\* Ply::make_consistent: a text with a line terminator is rejected, and
\* every declared count becomes the number of rows of the element
make_consistent(v) ==
    IF \/ \E i \in 1..Len(v.header.comments) : HasLineBreak(v.header.comments[i])
       \/ \E i \in 1..Len(v.header.obj_infos) : HasLineBreak(v.header.obj_infos[i])
    THEN [ok |-> FALSE, ply |-> v,
          err |-> Inconsistent("A comment or obj_info holds a line break.")]
    ELSE LET els == v.header.elements
             counted == [i \in 1..Len(els) |->
                           [key |-> els[i].key,
                            value |-> [els[i].value EXCEPT
                                         !.count = Len(RowsOf(v.payload, els[i].key))]]]
         IN  [ok |-> TRUE, err |-> NoError,
              ply |-> [v EXCEPT !.header.elements = counted]]

\* one comment or obj_info line: the keyword, a blank, and the text
write_text(kw, t) ==
    LET blanks == [i \in 1..t.trail |-> SP]
    IN  IF HasLineBreak(t)
        THEN <<Item(kw, "hi", "", "", t.lead, 0), LF, Junk>> \o blanks \o <<LF>>
        ELSE <<Item(kw, t.body, "", "", t.lead, 0)>> \o blanks \o <<LF>>

write_property_def(pd) ==
    <<PropertyLn(pd.name, pd.data_type.index, pd.data_type.elem), LF>>

write_element_def(d) ==
    <<ElementLn(d.name, d.count, 0), LF>>
        \o Concat([k \in 1..Len(d.properties) |-> write_property_def(d.properties[k].value)])

\* a list whose index type is an integer kind, or a scalar
LegalType(data_type) == data_type.kind = "List" => ~IsFloat(data_type.index)

HeaderLegal(h) ==
    \A i \in 1..Len(h.elements) :
        \A k \in 1..Len(h.elements[i].value.properties) :
            LegalType(h.elements[i].value.properties[k].value.data_type)

\* the header: magic line, format line, comment lines, obj_info lines, per
\* element its element line and its property lines, end_header
write_header(h) ==
    <<MagicNumber, LF, FormatLn(h.encoding, h.version.major, h.version.minor), LF>>
        \o Concat([i \in 1..Len(h.comments) |-> write_text("comment", h.comments[i])])
        \o Concat([i \in 1..Len(h.obj_infos) |-> write_text("obj_info", h.obj_infos[i])])
        \o Concat([i \in 1..Len(h.elements) |-> write_element_def(h.elements[i].value)])
        \o <<EndHeaderLn, LF>>

\* a slip: the value is taken whatever kind it is stored under
Present_by_name(row, pd) == pd.name \in Keys(row)

\* the getter of the declared kind, by property name: absent when the row
\* holds no such property or holds it under another kind
Present(row, pd) ==
    /\ pd.name \in Keys(row)
    /\ Get(row, pd.name).tag = IF pd.data_type.kind = "Scalar"
                               THEN ScalarTag(pd.data_type.elem)
                               ELSE ListTag(pd.data_type.elem)

\* the decimal text of an integer
Display(v) == IF v < 0 THEN Num("-", 0 - v, 0) ELSE Num("", v, 0)

\* the w bytes of the two's complement of v in the byte order
ToBytes(v, w, big) ==
    [i \in 1..w |-> Byte((v \div (256 ^ (IF big THEN w - i ELSE i - 1))) % 256)]

\* the values of one property of a row, a list with its length first
ValuesOf(row, pd) ==
    LET v == Get(row, pd.name).v
    IN  IF pd.data_type.kind = "Scalar" THEN <<[val |-> v[1], ty |-> pd.data_type.elem]>>
        ELSE <<[val |-> Len(v), ty |-> pd.data_type.index]>>
                \o [i \in 1..Len(v) |-> [val |-> v[i], ty |-> pd.data_type.elem]]

RowValues(row, props) ==
    Concat([k \in 1..Len(props) |-> ValuesOf(row, props[k].value)])

\* one row: in ASCII a line of tokens with a blank between them, in binary
\* the bytes of the values
write_row(row, props, encoding) ==
    LET vs == RowValues(row, props)
    IN  IF encoding = "ascii"
        THEN Concat([i \in 1..Len(vs) |->
                       IF i = 1 THEN <<Display(vs[i].val)>>
                       ELSE <<SP, Display(vs[i].val)>>]) \o <<LF>>
        ELSE Concat([i \in 1..Len(vs) |->
                       ToBytes(vs[i].val, Width(vs[i].ty), encoding = "binary_big_endian")])

PayloadLegal(v) ==
    \A i \in 1..Len(v.header.elements) :
        LET rows == RowsOf(v.payload, v.header.elements[i].key)
            props == v.header.elements[i].value.properties
        IN  \A j \in 1..Len(rows) : \A k \in 1..Len(props) : Present(rows[j], props[k].value)

write_payload(v) ==
    Concat([i \in 1..Len(v.header.elements) |->
              LET rows == RowsOf(v.payload, v.header.elements[i].key)
                  props == v.header.elements[i].value.properties
              IN  Concat([j \in 1..Len(rows) |->
                            write_row(rows[j], props, v.header.encoding)])])

\* Writer::write_ply_unchecked: the header and the payload as they are
write_ply_unchecked(v) ==
    IF ~HeaderLegal(v.header)
    THEN [ok |-> FALSE, out |-> << >>,
          err |-> Inconsistent("Index of list must be an integer type.")]
    ELSE IF ~PayloadLegal(v)
    THEN [ok |-> FALSE, out |-> << >>,
          err |-> Inconsistent("A declared property is absent from the element.")]
    ELSE [ok |-> TRUE, out |-> write_header(v.header) \o write_payload(v), err |-> NoError]

\* Writer::write_ply: the consistency pass, then the unchecked write
write_ply(v) ==
    LET c == make_consistent(v)
        w == write_ply_unchecked(c.ply)
    IN  IF ~c.ok THEN [ok |-> FALSE, out |-> << >>, err |-> c.err, ply |-> v, passed |-> FALSE]
        ELSE [ok |-> w.ok, out |-> w.out, err |-> w.err, ply |-> c.ply, passed |-> TRUE]

----------------------------------------------------------------------------
(* A Ply built by hand, made consistent, written, and read back *)

MaxRows == 2        \* rows of an element of a generated Ply
MaxTexts == 1       \* comments, and obj_infos, of a generated Ply

Encodings == {"ascii", "binary_big_endian", "binary_little_endian"}

TextPool ==
    { Text(0, "hi", 0), Text(1, "hi", 0), Text(0, "hi", 1), Text(0, "", 0),
      Text(0, Broken, 0) }

Entry(k, v) == [key |-> k, value |-> v]

PropertyMap(defs) == [k \in 1..Len(defs) |-> Entry(defs[k].name, defs[k])]

\* the declared properties of an element, and rows for it: rows as
\* declared, and rows with a property missing, of another kind, in another
\* order, or beyond the declared ones
Shapes ==
    { [props |-> << >>,
       rows |-> { << >>, <<Entry("y", Property("Char", <<1>>))>> }],
      [props |-> <<PropertyDef("x", Scalar("char"))>>,
       rows |-> { <<Entry("x", Property("Char", <<-1>>))>>,
                  <<Entry("x", Property("Char", <<5>>))>>,
                  <<Entry("x", Property("UChar", <<5>>))>>,
                  << >> }],
      [props |-> <<PropertyDef("x", Scalar("ushort")), PropertyDef("l", List("uchar", "short"))>>,
       rows |-> { <<Entry("x", Property("UShort", <<258>>)),
                    Entry("l", Property("ListShort", <<-2, 3>>))>>,
                  <<Entry("l", Property("ListShort", << >>)),
                    Entry("x", Property("UShort", <<0>>))>> }],
      [props |-> <<PropertyDef("l", List("char", "int"))>>,
       rows |-> { <<Entry("l", Property("ListInt", <<65536>>))>>,
                  <<Entry("l", Property("ListInt", <<-1, 1>>))>> }],
      [props |-> <<PropertyDef("l", List("float", "uchar"))>>,
       rows |-> { <<Entry("l", Property("ListUChar", <<1>>))>> }] }

\* an element of the given name: its definition with some declared count,
\* and its rows
Elements(name) ==
    UNION { { [def |-> [name |-> name, count |-> c,
                        properties |-> PropertyMap(sh.props)],
               rows |-> rs]
              : rs \in SeqsUpTo(sh.rows, MaxRows), c \in {0, 5} }
            : sh \in Shapes }

Second ==
    { [def |-> [name |-> "b", count |-> 1,
                properties |-> PropertyMap(<<PropertyDef("x", Scalar("char"))>>)],
       rows |-> <<<<Entry("x", Property("Char", <<7>>))>>>>] }

\* the elements of a Ply: none, one, or two; the payload holds the rows of
\* every element, or lacks those of an element without rows
ElementLists ==
    {<< >>} \cup { <<a>> : a \in Elements("a") }
            \cup { <<a, b>> : a \in Elements("a"), b \in Second }

Built(encoding, comments, obj_infos, els, sparse) ==
    LET kept == SelectSeq(els, LAMBDA e : ~sparse \/ e.rows # << >>)
    IN  Ply(Header(encoding, Version(1, 0), obj_infos, comments,
                   [i \in 1..Len(els) |-> Entry(els[i].def.name, els[i].def)]),
            [i \in 1..Len(kept) |-> Entry(kept[i].def.name, kept[i].rows)])

Values ==
    { Built(enc, <<Text(0, "hi", 0)>>, << >>, els, sparse)
      : enc \in Encodings, els \in ElementLists, sparse \in BOOLEAN }
    \cup
    { Built(enc, c, o, << >>, FALSE)
      : enc \in Encodings, c \in SeqsUpTo(TextPool, MaxTexts),
        o \in SeqsUpTo(TextPool, MaxTexts) }

InitRT ==
    /\ written \in Values
    /\ consistent = FALSE
    /\ wresult = "none"
    /\ src = << >>
    /\ pos = 0
    /\ pc = "new"
    /\ line_index = 0
    /\ header_form_ver = NoFormat
    /\ header_obj_infos = << >>
    /\ header_elements = EmptyMap
    /\ header_comments = << >>
    /\ header = NoHeader
    /\ payload = EmptyMap
    /\ ei = 0
    /\ elems = << >>
    /\ result = "none"
    /\ ply = NoPly
    /\ err = NoError

reader == << pos, line_index, header_form_ver, header_obj_infos, header_elements,
             header_comments, header, payload, ei, elems, result, ply >>

\* ply.make_consistent()
MakeConsistent ==
    /\ pc = "new"
    /\ LET c == make_consistent(written)
       IN  IF c.ok
           THEN /\ written' = c.ply
                /\ consistent' = TRUE
                /\ UNCHANGED << pc, wresult, err >>
           ELSE /\ pc' = "inconsistent"
                /\ wresult' = "err"
                /\ err' = c.err
                /\ UNCHANGED << written, consistent >>
    /\ UNCHANGED << src, reader >>

\* Writer::write_ply(&mut out, &mut ply), the written bytes handed to a reader
WritePly ==
    /\ pc = "new"
    /\ LET w == write_ply(written)
       IN  /\ written' = w.ply
           /\ consistent' = (consistent \/ w.passed)
           /\ src' = w.out
           /\ err' = w.err
           /\ wresult' = IF w.ok THEN "ok" ELSE "err"
           /\ pc' = IF w.ok THEN "magic" ELSE "unwritten"
    /\ UNCHANGED reader

\* Writer::write_ply_unchecked(&mut out, &ply), the written bytes handed to
\* a reader
WritePlyUnchecked ==
    /\ pc = "new"
    /\ LET w == write_ply_unchecked(written)
       IN  /\ src' = w.out
           /\ err' = w.err
           /\ wresult' = IF w.ok THEN "ok" ELSE "err"
           /\ pc' = IF w.ok THEN "magic" ELSE "unwritten"
    /\ UNCHANGED << written, consistent, reader >>

NextRT ==
    \/ MakeConsistent
    \/ WritePly
    \/ WritePlyUnchecked
    \/ ReadMagic
    \/ ReadHeaderLine
    \/ BeginElement
    \/ ReadAsciiRow
    \/ ReadBinaryRow
    \/ EndElement
    \/ Return

SpecRT == InitRT /\ [][NextRT]_vars

----------------------------------------------------------------------------
(* A loader derived with FromPly: src/ply-rs-macros/src/lib.rs.  The struct
   has one field, bound to the element b; its rows are kept as the parser
   decodes them *)

\* the names in the patterns of the match on the element name
Bound == {"b"}

\* files with the elements a and b in either order, in the three encodings
FromPlyInputs ==
    LET a == <<ElementLn("a", 1, 0), PropertyLn("l", "uchar", "uchar")>>
        b == <<ElementLn("b", 1, 0), PropertyLn("x", "", "uchar")>>
        head(enc, els) ==
            Lines(<<MagicNumber, FormatLn(enc, 1, 0)>> \o els \o <<EndHeaderLn>>, <<LF>>)
    IN  { head(enc, els) \o [i \in 1..Len(bs) |-> Byte(bs[i])]
          : enc \in {"binary_little_endian", "binary_big_endian"},
            els \in {a \o b, b \o a}, bs \in SeqsUpTo(ByteAlphabet, MaxBytes) }
        \cup
        { head("ascii", els) \o Concat([i \in 1..Len(d) |-> d[i] \o <<LF>>])
          : els \in {a \o b, b \o a}, d \in SeqsUpTo(DataLines, MaxLines) }

InitFromPly ==
    /\ src \in FromPlyInputs
    /\ pos = 0
    /\ pc = "magic"
    /\ line_index = 0
    /\ header_form_ver = NoFormat
    /\ header_obj_infos = << >>
    /\ header_elements = EmptyMap
    /\ header_comments = << >>
    /\ header = NoHeader
    /\ payload = EmptyMap
    /\ ei = 0
    /\ elems = << >>
    /\ result = "none"
    /\ ply = NoPly
    /\ err = NoError
    /\ written = NoPly
    /\ consistent = FALSE
    /\ wresult = "none"

\* `let mut field = Vec::new();` behind parser.read_header(&mut reader)?,
\* which is taken in the steps ReadMagic and ReadHeaderLine
FromPlyFields ==
    /\ pc = "payload"
    /\ payload = EmptyMap
    /\ payload' = [i \in 1..1 |-> [key |-> "b", value |-> << >>]]
    /\ UNCHANGED << src, pos, pc, line_index, header_form_ver, header_obj_infos,
                    header_elements, header_comments, header, ei, elems, result, ply,
                    err, written, consistent, wresult >>

\* the loop over header.elements takes the next element: either arm calls
\* read_payload_for_element, whose rows are read in the steps ReadAsciiRow
\* and ReadBinaryRow
FromPlyBegin ==
    /\ payload # EmptyMap
    /\ BeginElement

\* the arm of a bound name: the rows are assigned to the field
FromPlyBound ==
    /\ pc = "rows"
    /\ header.elements[ei + 1].key \in Bound
    /\ EndElement

\* a slip: an element bound to no field is left before its rows are read
FromPlySkipped_early ==
    /\ pc = "rows"
    /\ header.elements[ei + 1].key \notin Bound
    /\ ei' = ei + 1
    /\ pc' = "payload"
    /\ UNCHANGED << written, consistent, wresult, src, pos, line_index, header_form_ver,
                    header_obj_infos, header_elements, header_comments, header, elems,
                    result, ply, err, payload >>

\* the arm `_ =>`: the rows read into IgnoredElement are dropped
FromPlySkipped ==
    /\ pc = "rows"
    /\ header.elements[ei + 1].key \notin Bound
    /\ ~rows_left(element_def, Len(elems))
    /\ ei' = ei + 1
    /\ pc' = "payload"
    /\ UNCHANGED << written, consistent, wresult, src, pos, line_index, header_form_ver,
                    header_obj_infos, header_elements, header_comments, header, elems,
                    result, ply, err, payload >>

\* Ok(Self { fields })
FromPlyReturn ==
    /\ pc = "payload"
    /\ payload # EmptyMap
    /\ ei = Len(header.elements)
    /\ ply' = Ply(NoHeader, payload)
    /\ result' = "ok"
    /\ pc' = "done"
    /\ UNCHANGED << src, pos, line_index, header_form_ver, header_obj_infos,
                    header_elements, header_comments, header, payload, ei, elems, err,
                    written, consistent, wresult >>

NextFromPly ==
    \/ ReadMagic
    \/ ReadHeaderLine
    \/ FromPlyFields
    \/ FromPlyBegin
    \/ ReadAsciiRow
    \/ ReadBinaryRow
    \/ FromPlyBound
    \/ FromPlySkipped
    \/ FromPlyReturn

SpecFromPly == InitFromPly /\ [][NextFromPly]_vars

----------------------------------------------------------------------------
(* What the input holds, read off the items without the parser *)

\* index of the end_header statement of the input, or one past its end
EndHeaderIndex(s) ==
    IF \E i \in 1..Len(s) : s[i].t = "end_header"
    THEN CHOOSE i \in 1..Len(s) :
            s[i].t = "end_header" /\ \A j \in 1..(i - 1) : s[j].t # "end_header"
    ELSE Len(s) + 1

\* the statements of the header part of the input, in line order
HeaderStatements(s) ==
    SelectSeq(SubSeq(s, 1, EndHeaderIndex(s) - 1), LAMBDA x : x.t # "byte")

\* the (encoding, version) pairs of the format lines of the header part
HeaderFormats(s) ==
    LET fs == SelectSeq(HeaderStatements(s), LAMBDA x : x.t = "format")
    IN  [i \in 1..Len(fs) |-> format(fs[i])]

----------------------------------------------------------------------------
(* Claims *)

\* the Ply read back equals the Ply that was written
SameAsWritten ==
    /\ HeaderEq(ply.header, written.header)
    /\ PayloadEq(ply.payload, written.payload)

\* the write and the read that follows it both succeed, and give back the
\* header and the payload that were written
RoundTrips ==
    /\ wresult # "err"
    /\ result # "err"
    /\ result = "ok" => SameAsWritten

WellFormed(v) ==
    /\ \A i \in 1..Len(v.header.comments) : v.header.comments[i].lead = 0
    /\ \A i \in 1..Len(v.header.obj_infos) : v.header.obj_infos[i].lead = 0
    /\ Keys(v.payload) = Keys(v.header.elements)
    /\ \A i \in 1..Len(v.header.elements) :
          LET props == v.header.elements[i].value.properties
              rows == RowsOf(v.payload, v.header.elements[i].key)
          IN  /\ \A k \in 1..Len(props) :
                    props[k].value.data_type.kind = "List"
                        => ~IsFloat(props[k].value.data_type.index)
              /\ \A j \in 1..Len(rows) :
                    /\ Keys(rows[j]) = Keys(props)
                    /\ \A k \in 1..Len(props) :
                          Get(rows[j], props[k].key).tag =
                              IF props[k].value.data_type.kind = "Scalar"
                              THEN ScalarTag(props[k].value.data_type.elem)
                              ELSE ListTag(props[k].value.data_type.elem)

C2_PayloadMatchesHeader ==
    result = "ok" =>
        /\ Len(ply.payload) = Len(ply.header.elements)
        /\ \A i \in 1..Len(ply.payload) :
              /\ ply.payload[i].key = ply.header.elements[i].key
              /\ Len(ply.payload[i].value) = ply.header.elements[i].value.count

\* a read that returned two elements, one of them with two rows
C2_Witness ==
    /\ result = "ok"
    /\ Len(ply.payload) = 2
    /\ \E i \in 1..2 : Len(ply.payload[i].value) = 2

\* C3: a header whose later format line differs from its first one is never
\* accepted, and the read stops before anything of the payload is decoded;
\* the contradiction error is raised for differing pairs only, and an
\* accepted header carries the pair of the first format line.
C3_FirstFormatWins ==
    LET fs == HeaderFormats(src)
        differ == \E i \in 2..Len(fs) : fs[i] # fs[1]
    IN  /\ differ =>
              /\ header = NoHeader /\ result # "ok"
              /\ payload = EmptyMap /\ elems = << >>
              /\ pc \in {"magic", "header", "failed"}
        /\ err.msg = "Found contradicting format definition" => differ
        /\ header # NoHeader =>
              /\ fs # << >>
              /\ header.encoding = fs[1].encoding
              /\ header.version = fs[1].version

\* a read that failed on a contradicting format line, with payload left unread
C3_Witness ==
    /\ result = "err"
    /\ err.msg = "Found contradicting format definition"
    /\ header = NoHeader
    /\ EndHeaderIndex(src) < Len(src)
    /\ pos < EndHeaderIndex(src)


RECURSIVE Staged(_, _, _, _)
\* the element map of a header read with a staged element: an element line
\* commits the staged element and stages a new one, a property line is added
\* to the staged element
Staged(stmts, map, cur, has) ==
    IF stmts = << >> THEN (IF has THEN add(map, cur) ELSE map)
    ELSE LET x == Head(stmts)
         IN  CASE x.t = "element" ->
                    Staged(Tail(stmts), IF has THEN add(map, cur) ELSE map,
                           element(x).def, TRUE)
               [] x.t = "property" ->
                    Staged(Tail(stmts), map,
                           [cur EXCEPT !.properties = add(cur.properties, property(x))],
                           has)
               [] OTHER -> Staged(Tail(stmts), map, cur, has)

\* C4: in an accepted header every property line belongs to the element of
\* the nearest preceding element line, in line order, and to no other.
C4_PropertiesFollowTheirElement ==
    header # NoHeader =>
        header.elements = Staged(HeaderStatements(src), EmptyMap, ElementDef(""), FALSE)

RECURSIVE WithLf(_)
\* the items with every line terminator CR LF or CR rewritten as LF
WithLf(s) ==
    IF s = << >> THEN << >>
    ELSE IF Head(s) = CR
    THEN IF Len(s) > 1 /\ s[2] = LF THEN <<LF>> \o WithLf(SubSeq(s, 3, Len(s)))
         ELSE <<LF>> \o WithLf(Tail(s))
    ELSE <<Head(s)>> \o WithLf(Tail(s))

\* the header part of the input with LF line terminators, and the rest as it is
HeaderWithLf(s) ==
    LET e == EndHeaderIndex(s)
        cut == IF e + 2 <= Len(s) /\ s[e + 1] = CR /\ s[e + 2] = LF THEN e + 2
               ELSE IF e + 1 <= Len(s) THEN e + 1 ELSE Len(s)
    IN  WithLf(SubSeq(s, 1, cut)) \o SubSeq(s, cut + 1, Len(s))

\* C5: a header is read the same with the line terminators \n, \r\n and \r:
\* on every input the header part ends as it does on the same input with
\* its line terminators written as \n.
C5_LineTerminators ==
    pc \notin {"magic", "header"} =>
        LET r == read_header(HeaderWithLf(src))
        IN  /\ (header # NoHeader) <=> r.ok
            /\ r.ok => r.header = header

\* the header part of the input ends before an end_header line was read
HeaderAtEnd == pc \in {"magic", "header"} /\ pos = Len(src)

\* C6: when the input ends before end_header, read_header returns an I/O
\* error of kind UnexpectedEof.
C6_EofInHeaderIsIo ==
    [][HeaderAtEnd => (result' = "err" /\ err'.cat = "Io" /\ err'.kind = "UnexpectedEof")]_vars

\* the properties before the k-th are scalars
ScalarsBefore(props, k) == \A j \in 1..(k - 1) : props[j].value.data_type.kind = "Scalar"

RECURSIVE WidthBefore(_, _)
\* the bytes of the scalar properties before the k-th
WidthBefore(props, k) ==
    IF k <= 1 THEN 0
    ELSE WidthBefore(props, k - 1) + Width(props[k - 1].value.data_type.elem)

\* the row behind pos holds, for the list property k, a count of a signed
\* index type whose sign bit is set
NegativeCountAhead(k) ==
    LET props == element_def.properties
        dt == props[k].value.data_type
        at == pos + WidthBefore(props, k)
        w == Width(dt.index)
    IN  /\ dt.kind = "List" /\ IsSigned(dt.index)
        /\ ScalarsBefore(props, k)
        /\ at + w <= Len(src)
        /\ (IF header.encoding = "binary_big_endian" THEN src[at + 1].n
            ELSE src[at + w].n) >= 128

\* C7: a negative count of a signed index type fails the binary decode of the
\* list right behind the count: no value of the list is read.
C7_NegativeCountFails ==
    [][\A k \in 1..2 :
         ( /\ pc = "rows" /\ header.encoding # "ascii"
           /\ Len(elems) < element_def.count
           /\ k <= Len(element_def.properties)
           /\ NegativeCountAhead(k) )
         => /\ result' = "err"
            /\ err'.msg = "List length cannot be negative."
            /\ pos' = pos + WidthBefore(element_def.properties, k)
                          + Width(element_def.properties[k].value.data_type.index)
      ]_vars

\* a binary read that failed on a negative count with bytes left behind it
C7_Witness ==
    /\ result = "err"
    /\ err.msg = "List length cannot be negative."
    /\ header.encoding # "ascii"
    /\ pos < Len(src)

HasFloatIndex(def) ==
    \E k \in 1..Len(def.properties) :
        /\ def.properties[k].value.data_type.kind = "List"
        /\ IsFloat(def.properties[k].value.data_type.index)

\* C8: no row of an element that declares a list with a float or double
\* index type is ever decoded, in any encoding.
C8_FloatIndexRejected ==
    (pc = "rows" /\ HasFloatIndex(element_def)) => elems = << >>

\* C9: when the input ends while the rows of an element are decoded, the
\* error is an UnexpectedEof I/O error stating the element's name, its
\* declared count, and the number of rows read.
C9_EofInRowsIsIo ==
    (result = "err" /\ header # NoHeader /\ err.cause = "UnexpectedEof") =>
        /\ err.cat = "Io" /\ err.kind = "UnexpectedEof"
        /\ err.name = element_def.name
        /\ err.expected = element_def.count
        /\ err.got = Len(elems)

PropertyNames(map) == [k \in 1..Len(map) |-> map[k].key]

\* C10: read_ply returns a Ply that holds every row of every element of its
\* header, each row with every declared property, or an error and no Ply;
\* after the first failure nothing more is read.
C10_AllOrNothing ==
    /\ result = "ok" =>
          /\ err = NoError
          /\ PropertyNames(ply.payload) = PropertyNames(ply.header.elements)
          /\ \A i \in 1..Len(ply.payload) :
                LET def == ply.header.elements[i].value
                    rows == ply.payload[i].value
                IN  /\ Len(rows) = def.count
                    /\ \A j \in 1..Len(rows) :
                          PropertyNames(rows[j]) = PropertyNames(def.properties)
    /\ result = "err" => (ply = NoPly /\ err # NoError /\ pc = "failed")
    /\ pc = "failed" => (result = "err" /\ ~ENABLED Next)

\* a read that failed in the second row of an element: the first row is dropped
C10_Witness ==
    /\ result = "err"
    /\ pc = "failed"
    /\ Len(elems) = 1
    /\ elems[1] # << >>
    /\ ply = NoPly

\* a property line of the header part comes before every element line
OrphanProperty(s) ==
    LET st == HeaderStatements(s)
    IN  \E i \in 1..Len(st) :
           /\ st[i].t = "property"
           /\ \A j \in 1..(i - 1) : st[j].t # "element"

\* C11: a header with a property line before any element line is never
\* returned: the read fails in the header, and the error "property without
\* preceding element" is given for such a line only.
C11_PropertyNeedsElement ==
    /\ OrphanProperty(src) =>
          /\ header = NoHeader
          /\ result # "ok"
          /\ pc \in {"magic", "header", "failed"}
    /\ err.msg = "Property found without preceding element." => OrphanProperty(src)

\* the read failed on a property line with no element before it
C11_Witness ==
    /\ result = "err"
    /\ err.msg = "Property found without preceding element."
    /\ header_elements = EmptyMap
    /\ header_form_ver # NoFormat

\* the format lines of the header part, as they are written
FormatLines(s) == SelectSeq(HeaderStatements(s), LAMBDA x : x.t = "format")

\* the header part has no format line, or a first format line with a
\* component of the version that does not fit
NoUsableFormat(s) ==
    \/ FormatLines(s) = << >>
    \/ FormatLines(s)[1].n > 65535
    \/ FormatLines(s)[1].m > 255

\* C12: a header without a format line, or whose recorded format line has a
\* version component that overflows, is never returned; a returned header
\* has a version of a 16-bit major and an 8-bit minor.
C12_FormatAndVersionNeeded ==
    /\ NoUsableFormat(src) =>
          /\ header = NoHeader
          /\ result # "ok"
          /\ pc \in {"magic", "header", "failed"}
    /\ header # NoHeader =>
          /\ header.version.major \in 0..65535
          /\ header.version.minor \in 0..255
    /\ err.msg \in {"No format line found.", "Invalid version number."}
          => (NoUsableFormat(src) /\ pos >= EndHeaderIndex(src))

\* end_header was read behind a format line whose version does not fit
C12_Witness ==
    /\ result = "err"
    /\ err.msg = "Invalid version number."
    /\ header_form_ver # NoFormat
    /\ pos >= EndHeaderIndex(src)

\* the items of the first line the reader takes: those before the first \n
FirstLine(s) ==
    IF \E i \in 1..Len(s) : s[i] = LF
    THEN SubSeq(s, 1, (CHOOSE i \in 1..Len(s) :
                          s[i] = LF /\ \A j \in 1..(i - 1) : s[j] # LF) - 1)
    ELSE s

\* the line is the token ply, blanks behind it, and at most a \r
IsMagicLine(ln) ==
    /\ ln # << >>
    /\ Head(ln) = MagicNumber
    /\ \A i \in 2..Len(ln) : IsSpace(ln[i]) \/ (i = Len(ln) /\ ln[i] = CR)

\* a ply line comes again behind the first statement of the header part
MagicAgain(s) ==
    \E i \in 2..Len(HeaderStatements(s)) : HeaderStatements(s)[i].t = "ply"

\* C13: unless the first line is the magic token ply, the read has failed
\* once the first line is taken, and nothing behind that line is read; a
\* header with a second ply line is never returned.
C13_MagicFirst ==
    /\ (pc # "magic" /\ ~IsMagicLine(FirstLine(src))) =>
          /\ pc = "failed"
          /\ result = "err"
          /\ line_index = 1
          /\ pos <= Len(FirstLine(src)) + 1
          /\ header_form_ver = NoFormat
          /\ header = NoHeader
    /\ MagicAgain(src) => (header = NoHeader /\ result # "ok")
    /\ err.msg = "Unexpected 'ply' found." => MagicAgain(src)

\* the read failed on a first line that is another statement, with lines
\* behind it
C13_Witness ==
    /\ result = "err"
    /\ err.msg = "Expected magic number 'ply', but saw another line."
    /\ line_index = 1
    /\ pos < Len(src)

\* a line without its terminator \n or \r\n
Unterminated(chunk) ==
    LET n == Len(chunk)
    IN  IF n >= 2 /\ chunk[n - 1] = CR /\ chunk[n] = LF THEN SubSeq(chunk, 1, n - 2)
        ELSE IF n >= 1 /\ chunk[n] = LF THEN SubSeq(chunk, 1, n - 1)
        ELSE chunk

\* the numeric tokens of a line, in their order
Tokens(chunk) == SelectSeq(chunk, LAMBDA x : x.t = "num")

\* a line of numeric tokens with blanks between them, and any blanks before
\* the first and behind the last
WellLaid(chunk) ==
    LET b == Unterminated(chunk)
    IN  /\ \A i \in 1..Len(b) : b[i].t = "num" \/ IsSpace(b[i])
        /\ \A i \in 1..(Len(b) - 1) : ~(b[i].t = "num" /\ b[i + 1].t = "num")

\* the tokens with one blank between them and nothing else
Canon(toks) ==
    [i \in 1..(2 * Len(toks) - 1) |-> IF i % 2 = 1 THEN toks[(i + 1) \div 2] ELSE SP]

RECURSIVE StartOf(_, _, _)
\* the number of tokens the properties before the j-th take
StartOf(toks, props, j) ==
    IF j <= 1 THEN 0
    ELSE LET at == StartOf(toks, props, j - 1)
         IN  IF props[j - 1].value.data_type.kind = "Scalar" THEN at + 1
             ELSE at + 1 + TokenValue(toks[at + 1])

\* the row the tokens denote: a scalar is the token at its place, a list the
\* tokens behind its count
Expected(toks, props) ==
    [j \in 1..Len(props) |->
        LET dt == props[j].value.data_type
            at == StartOf(toks, props, j)
        IN  [key |-> props[j].key,
             value |-> IF dt.kind = "Scalar"
                       THEN Property(ScalarTag(dt.elem), <<from_str(toks[at + 1], dt.elem).val>>)
                       ELSE Property(ListTag(dt.elem),
                                     [i \in 1..TokenValue(toks[at + 1]) |->
                                        from_str(toks[at + 1 + i], dt.elem).val])]]

\* C14: a row of tokens is decoded to the same element however its tokens
\* are laid out (blanks and tabs between, before and behind them, and the
\* terminator \n, \r\n or none), and the element holds, per property in
\* declared order, one token for a scalar and for a list the count and the
\* tokens behind it.
C14_AsciiRowLayout ==
    [][( /\ pc = "rows" /\ header.encoding = "ascii"
         /\ Len(elems) < element_def.count
         /\ pos < Len(src)
         /\ WellLaid(SubSeq(src, pos + 1, pos')) )
       => LET toks == Tokens(SubSeq(src, pos + 1, pos'))
              c == read_ascii_element(Canon(toks), element_def)
          IN  /\ c.ok => /\ elems' = Append(elems, c.elem)
                         /\ c.elem = Expected(toks, element_def.properties)
                         /\ result' # "err"
              /\ ~c.ok => /\ elems' = elems
                          /\ result' = IF c.panic THEN "panic" ELSE "err"
      ]_vars

\* a row read from a line with leading, trailing and mixed blanks and \r\n
C14_Witness ==
    /\ pc = "rows"
    /\ header.encoding = "ascii"
    /\ Len(elems) = 1
    /\ Len(elems[1]) = 2
    /\ elems[1][1].value = Property("Int", <<-7>>)
    /\ elems[1][2].value = Property("UInt", <<5>>)
    /\ src[pos - 1] = CR

\* whether the token is a literal of the integer kind: digits only, with a
\* "-" only for a signed kind, and a value the kind holds
Literal(x, ty) ==
    /\ x.m = 0
    /\ ~IsWide(x)
    /\ x.s = "-" => ty \in {"char", "short", "int"}
    /\ TokenValue(x) >= MinOf(ty)
    /\ TokenValue(x) <= MaxOf(ty)

\* whether the token announces a list length
Count(x) == x.m = 0 /\ x.s # "-"

RECURSIVE Faulty(_, _, _, _)
\* whether the tokens behind the first `at` end before the properties from
\* the j-th on and their announced list values are filled, or hold a token
\* that is no literal of the integer kind it is read as
Faulty(toks, props, j, at) ==
    IF j > Len(props) THEN FALSE
    ELSE IF at >= Len(toks) THEN TRUE
    ELSE LET dt == props[j].value.data_type
             x == toks[at + 1]
         IN  IF dt.kind = "Scalar"
             THEN \/ ~IsFloat(dt.elem) /\ ~Literal(x, dt.elem)
                  \/ Faulty(toks, props, j + 1, at + 1)
             ELSE \/ ~Count(x)
                  \/ IsWide(x)
                  \/ at + 1 + x.n > Len(toks)
                  \/ \E i \in 1..x.n :
                        ~IsFloat(dt.elem) /\ ~Literal(toks[at + 1 + i], dt.elem)
                  \/ Faulty(toks, props, j + 1, at + 1 + x.n)

\* every integer value of the rows is one its kind holds
InRange(rows, props) ==
    \A i \in 1..Len(rows) : \A j \in 1..Len(rows[i]) :
        LET dt == props[j].value.data_type
        IN  ~IsFloat(dt.elem) =>
                \A k \in 1..Len(rows[i][j].value.v) :
                    /\ rows[i][j].value.v[k] >= MinOf(dt.elem)
                    /\ rows[i][j].value.v[k] <= MaxOf(dt.elem)

\* C15: an ASCII row whose tokens end before every declared property and
\* every announced list value is filled, or hold a token that is no literal
\* of the integer kind it is read as, fails with a parse error and is not
\* stored; every integer value stored is in the range of its kind.
C15_AsciiRowFaults ==
    [][(pc = "rows" /\ header.encoding = "ascii") =>
         /\ InRange(elems', element_def.properties)
         /\ ( /\ Len(elems) < element_def.count
              /\ pos < Len(src)
              /\ WellLaid(SubSeq(src, pos + 1, pos'))
              /\ Faulty(Tokens(SubSeq(src, pos + 1, pos')), element_def.properties, 1, 0) )
            => /\ pc' = "failed"
               /\ result' = "err"
               /\ err'.cat = "Parse"
               /\ elems' = elems
      ]_vars

\* the widths of the eight kinds
Bytes(ty) ==
    CASE ty = "char" -> 1   [] ty = "uchar" -> 1
      [] ty = "short" -> 2  [] ty = "ushort" -> 2
      [] ty = "int" -> 4    [] ty = "uint" -> 4
      [] ty = "float" -> 4  [] ty = "double" -> 8

\* the k-th most significant of the w bytes behind position p
Significant(s, p, w, big, k) == IF big THEN s[p + k].n ELSE s[p + w + 1 - k].n

RECURSIVE Weighted(_, _, _, _, _, _)
\* the k most significant of the w bytes behind position p as a number, the
\* first of them weighing `top`
Weighted(s, p, w, big, k, top) ==
    IF k = 1 THEN top
    ELSE Weighted(s, p, w, big, k - 1, top) * 256 + Significant(s, p, w, big, k)

\* the value the bytes behind position p denote in the byte order
Denoted(s, p, ty, big) ==
    LET w == Bytes(ty)
        b == Significant(s, p, w, big, 1)
    IN  IF ty \in {"float", "double"}
        THEN <<1>> \o [k \in 1..w |-> Significant(s, p, w, big, k)]
        ELSE Weighted(s, p, w, big, w,
                      IF ty \in {"char", "short", "int"} /\ b >= 128 THEN b - 256 ELSE b)

RECURSIVE RowAt(_, _, _, _, _, _, _)
\* whether the properties of the row from the j-th on are the values of the
\* bytes behind position p, each of its width and a list as its count and
\* that many values, and end at position `end`
RowAt(s, p, props, j, big, row, end) ==
    IF j > Len(props) THEN p = end
    ELSE LET dt == props[j].value.data_type
         IN  IF dt.kind = "Scalar"
             THEN /\ p + Bytes(dt.elem) <= Len(s)
                  /\ row[j].key = props[j].key
                  /\ row[j].value = Property(ScalarTag(dt.elem), <<Denoted(s, p, dt.elem, big)>>)
                  /\ RowAt(s, p + Bytes(dt.elem), props, j + 1, big, row, end)
             ELSE /\ p + Bytes(dt.index) <= Len(s)
                  /\ LET n == Denoted(s, p, dt.index, big)
                         q == p + Bytes(dt.index)
                     IN  /\ n >= 0
                         /\ q + n * Bytes(dt.elem) <= Len(s)
                         /\ row[j].key = props[j].key
                         /\ row[j].value =
                               Property(ListTag(dt.elem),
                                        [i \in 1..n |->
                                           Denoted(s, q + (i - 1) * Bytes(dt.elem), dt.elem, big)])
                         /\ RowAt(s, q + n * Bytes(dt.elem), props, j + 1, big, row, end)

EndOfHeader(s) ==
    LET i == EndHeaderIndex(s)
    IN  IF \E j \in i..Len(s) : s[j] = LF
        THEN CHOOSE j \in i..Len(s) : s[j] = LF /\ \A k \in i..(j - 1) : s[k] # LF
        ELSE Len(s)

\* C17: read_header and then read_payload with the returned header on the
\* same reader give what read_ply gives on the input: read_header stops
\* behind the line end_header, where read_ply starts the payload, the
\* headers are the same, and the payloads are the same or both reads fail.
C17_TwoStepRead ==
    LET h == read_header(src)
        q == read_payload(src, h.pos, h.header, 0, EmptyMap)
    IN  /\ (pc = "failed" /\ header = NoHeader) => ~h.ok
        /\ header # NoHeader =>
              /\ h.ok
              /\ h.header = header
              /\ h.pos = EndOfHeader(src)
              /\ (pc = "payload" /\ ei = 0) => pos = h.pos
              /\ result = "ok" => (q.ok /\ q.payload = ply.payload /\ h.header = ply.header
                                   /\ q.pos = pos)
              /\ result = "err" => (~q.ok /\ ~q.panic /\ q.pos = pos)
              /\ result = "panic" => q.panic
              /\ (pc = "payload" /\ ei = Len(header.elements)) => q.ok

\* both ways have read a binary payload of one row that stops before the
\* end of the input
C17_Witness ==
    /\ result = "ok"
    /\ ply.header.encoding = "binary_little_endian"
    /\ Len(ply.payload) = 1
    /\ Len(ply.payload[1].value) = 1
    /\ read_header(src).pos = EndOfHeader(src)
    /\ read_payload(src, EndOfHeader(src), ply.header, 0, EmptyMap).payload = ply.payload
    /\ pos < Len(src)

\* every key of the map is the name of the value stored under it
KeyedByName(map) == \A i \in 1..Len(map) : map[i].key = map[i].value.name

\* whether `after` is `before` with the value v added under its name: in
\* the place of the entry of that name, or else behind the last entry
Added(before, after, v) ==
    IF \E i \in 1..Len(before) : before[i].key = v.name
    THEN /\ Len(after) = Len(before)
         /\ \A i \in 1..Len(before) :
               after[i] = IF before[i].key = v.name
                          THEN [key |-> v.name, value |-> v] ELSE before[i]
    ELSE after = before \o << [key |-> v.name, value |-> v] >>

\* C18: every key of the map of elements and of each map of properties is
\* the name of its value; a value added under a name the map holds takes
\* the place of the old value, one added under a new name goes behind the
\* last entry, and the other entries stay as and where they are.
C18_KeyMapAdd ==
    [][ /\ KeyedByName(header_elements')
        /\ \A i \in 1..Len(header_elements') :
              KeyedByName(header_elements'[i].value.properties)
        /\ (pc = "header" /\ pc' = "header") =>
              LET x == line(read_line(src, pos).line).stmt
                  n == Len(header_elements)
              IN  /\ x.t = "element" =>
                        Added(header_elements, header_elements',
                              [name |-> x.s, count |-> x.n, properties |-> << >>])
                  /\ x.t = "property" =>
                        /\ Len(header_elements') = n
                        /\ \A i \in 1..(n - 1) : header_elements'[i] = header_elements[i]
                        /\ header_elements'[n].key = header_elements[n].key
                        /\ header_elements'[n].value.count = header_elements[n].value.count
                        /\ Added(header_elements[n].value.properties,
                                 header_elements'[n].value.properties,
                                 [name |-> x.s,
                                  data_type |-> [kind |-> IF x.a = "" THEN "Scalar" ELSE "List",
                                                 index |-> x.a, elem |-> x.b]])
      ]_vars

\* the element a was declared again behind b: it is first still, and lost
\* the property it had
C18_Witness ==
    /\ pc = "header"
    /\ Len(header_elements) = 2
    /\ header_elements[1].key = "a"
    /\ header_elements[1].value.properties = << >>
    /\ \E i, j \in 1..pos : i < j /\ src[i].t = "property" /\ src[j] = ElementLn("a", 1, 0)
                              /\ \A k \in 1..i : src[k] # ElementLn("b", 2, 0)

\* the sixteen kinds of a property
Tags == { ScalarTag(ty) : ty \in ScalarTypes } \cup { ListTag(ty) : ty \in ScalarTypes }

\* property names, "w" never declared
Names == {"x", "l", "w"}

\* one property of every kind
Kinds == { Property(ScalarTag(ty), <<3>>) : ty \in ScalarTypes }
            \cup { Property(ListTag(ty), <<3, 4>>) : ty \in ScalarTypes }

\* whether the name holds exactly the property p in the row: the getter
\* of its kind returns its value and every other getter nothing
Holds(row, name, p) ==
    \A t \in Tags : get(row, name, t) = IF t = p.tag THEN Some(p.v) ELSE None

\* C19: in a row, the getter of the kind a property was set with returns
\* its value and the other fifteen return nothing, every getter returns
\* nothing for a name never set, and a property set under a name replaces
\* the one set before.
C19_Getters ==
    \A r \in 1..Len(elems) :
        LET row == elems[r]
        IN  /\ \A i \in 1..Len(row) : Holds(row, row[i].key, row[i].value)
            /\ \A n \in Names :
                  (\A i \in 1..Len(row) : row[i].key # n) =>
                      \A t \in Tags : get(row, n, t) = None
            /\ (r = Len(elems) /\ pc = "payload") =>
                  \A n \in Names : \A p \in Kinds :
                      Holds(set_property(row, n, p), n, p)

\* a row with a scalar and a list: each is returned by the getter of its
\* kind only
C19_Witness ==
    /\ pc = "rows"
    /\ Len(elems) = 1
    /\ get(elems[1], "x", "UChar") = Some(<<255>>)
    /\ get(elems[1], "l", "ListUChar") = Some(<<1>>)
    /\ get(elems[1], "x", "ListUChar") = None
    /\ get(elems[1], "l", "UChar") = None
    /\ get(elems[1], "w", "UChar") = None

\* whether a comment or an obj_info of the header holds a line terminator
Embedded(h) ==
    \/ \E i \in 1..Len(h.comments) : h.comments[i].body = "hi\nyou"
    \/ \E i \in 1..Len(h.obj_infos) : h.obj_infos[i].body = "hi\nyou"

\* C20: write_ply of a Ply whose header holds a comment or obj_info with a
\* line terminator in it fails, in the consistency pass: nothing is
\* written, and the Ply is not changed.
C20_CheckedWriteRejectsLineBreak ==
    [][(WritePly /\ Embedded(written.header)) =>
          /\ wresult' = "err"
          /\ err' # NoError
          /\ src' = << >>
          /\ pc' = "unwritten"
          /\ ~consistent'
          /\ written' = written
      ]_vars

\* a checked write of a binary Ply with such an obj_info has failed
C20_Witness ==
    /\ pc = "unwritten"
    /\ wresult = "err"
    /\ src = << >>
    /\ written.header.encoding = "binary_big_endian"
    /\ written.header.comments = << >>
    /\ Embedded(written.header)

\* the number of rows the payload holds under the name
RowCount(p, name) ==
    IF \E j \in 1..Len(p) : p[j].key = name
    THEN Len(p[CHOOSE j \in 1..Len(p) : p[j].key = name].value)
    ELSE 0

\* the element lines of the written header, in their order
ElementLines(s) == SelectSeq(HeaderStatements(s), LAMBDA x : x.t = "element")

\* C21: after a consistency pass that succeeded, alone or as the first step
\* of write_ply, the declared count of every element of the header is the
\* number of rows the payload holds for it, and the element lines of a
\* checked write state these counts.
C21_CountsReconciled ==
    consistent =>
        /\ \A i \in 1..Len(written.header.elements) :
              written.header.elements[i].value.count
                 = RowCount(written.payload, written.header.elements[i].key)
        /\ wresult = "ok" =>
              ElementLines(src) =
                 [i \in 1..Len(written.header.elements) |->
                    ElementLn(written.header.elements[i].key,
                              RowCount(written.payload, written.header.elements[i].key), 0)]

\* a written Ply of two elements, two rows of the first and one of the second
C21_Witness ==
    /\ consistent
    /\ wresult = "ok"
    /\ Len(written.header.elements) = 2
    /\ written.header.elements[1].value.count = 2
    /\ ElementLines(src) = <<ElementLn("a", 2, 0), ElementLn("b", 1, 0)>>

\* C22: make_consistent applied to the Ply it has left gives the outcome it
\* gave and leaves the Ply and its element counts as they are.
C22_ConsistencyIdempotent ==
    LET once == make_consistent(written)
        twice == make_consistent(once.ply)
    IN  /\ twice.ok = once.ok
        /\ twice.err = once.err
        /\ twice.ply = once.ply
        /\ consistent => (once.ok /\ once.ply = written)

\* a Ply whose counts the pass has set and on which the pass can run again
C22_Witness ==
    /\ pc = "new"
    /\ consistent
    /\ Len(written.header.elements) = 2
    /\ written.header.elements[1].value.count = 2
    /\ written.header.elements[2].value.count = 1
    /\ ENABLED MakeConsistent

\* whether the header declares a list whose index type is float or double
FloatIndexDeclared(h) ==
    \E i \in 1..Len(h.elements) :
        \E k \in 1..Len(h.elements[i].value.properties) :
            LET dt == h.elements[i].value.properties[k].value.data_type
            IN  dt.kind = "List" /\ dt.index \in {"float", "double"}

\* C23: write_ply_unchecked leaves the Ply and its declared counts as they
\* are, writes the element lines with these counts, and fails when the
\* header declares a list with a float or double index type.
C23_UncheckedWrite ==
    [][WritePlyUnchecked =>
          /\ written' = written
          /\ consistent' = consistent
          /\ FloatIndexDeclared(written.header) =>
                (wresult' = "err" /\ err' # NoError /\ pc' = "unwritten")
          /\ wresult' = "ok" =>
                ElementLines(src') =
                   [i \in 1..Len(written.header.elements) |->
                      ElementLn(written.header.elements[i].value.name,
                                written.header.elements[i].value.count, 0)]
      ]_vars

\* an unchecked write of a Ply that declares a list with a float index has
\* failed, the declared count 5 of its one row standing
C23_Witness ==
    /\ pc = "unwritten"
    /\ wresult = "err"
    /\ ~consistent
    /\ FloatIndexDeclared(written.header)
    /\ written.header.elements[1].value.count = 5
    /\ RowCount(written.payload, "a") = 1

\* the tag a value of the declared type is stored under
DeclaredTag(dt) == IF dt.kind = "Scalar" THEN ScalarTag(dt.elem) ELSE ListTag(dt.elem)

\* whether a row of the payload lacks a property its element declares, or
\* holds it under another kind than the declared one
AbsentDeclared(v) ==
    \E i \in 1..Len(v.header.elements) : \E j \in 1..Len(v.payload) :
        /\ v.payload[j].key = v.header.elements[i].key
        /\ \E r \in 1..Len(v.payload[j].value) :
              \E k \in 1..Len(v.header.elements[i].value.properties) :
                 LET pd == v.header.elements[i].value.properties[k].value
                     row == v.payload[j].value[r]
                 IN  \A e \in 1..Len(row) :
                        row[e].key = pd.name => row[e].value.tag # DeclaredTag(pd.data_type)

\* C24: a write, checked or not, of a Ply with a row that lacks a declared
\* property or holds it under another kind fails: no written file is handed
\* on for such a Ply.
C24_AbsentPropertyFailsWrite ==
    [][((WritePly \/ WritePlyUnchecked) /\ AbsentDeclared(written)) =>
          /\ wresult' = "err"
          /\ err' # NoError
          /\ pc' = "unwritten"
      ]_vars

\* a write has failed on a row that holds x as uchar where char is declared
C24_Witness ==
    /\ pc = "unwritten"
    /\ wresult = "err"
    /\ AbsentDeclared(written)
    /\ ~FloatIndexDeclared(written.header)
    /\ Len(written.payload) = 1
    /\ Len(written.payload[1].value) = 1
    /\ written.payload[1].value[1] = <<Entry("x", Property("UChar", <<5>>))>>

\* the messages of the errors the reader returns for a structural violation
Structural ==
    { "Found contradicting format definition",
      "Property found without preceding element.",
      "No format line found.", "Invalid version number.", "Invalid version",
      "Index of list must be an integer type.",
      "List length cannot be negative." }

\* C25: a read that fails on contradicting format lines, a property line
\* with no element before it, a missing format line or an unusable version,
\* a float or double list index type, or a negative list length fails with
\* an error of the Inconsistent category.
C25_StructuralIsInconsistent ==
    (result = "err" /\ err.msg \in Structural) => err.cat = "Inconsistent"

\* whether the loader is at an element bound to no field
AtUnbound == pc \in {"payload", "rows"} /\ ei < Len(header.elements)
                /\ header.elements[ei + 1].key \notin Bound

\* C26 as stated: an element bound to no field never makes the load fail.
C26_UnboundNeverFails ==
    [][AtUnbound => result' \notin {"err", "panic"}]_vars

\* C26: the load of a file with an element bound to no field succeeds
\* whenever read_ply decodes the file, and fails otherwise; its rows are
\* dropped, the position behind them is the one read_ply is at, and the
\* field of the bound element holds the rows read_ply decodes for it.
C26_UnboundSkipped ==
    LET h == read_header(src)
        q == read_payload(src, h.pos, h.header, 0, EmptyMap)
    IN  /\ result = "ok" =>
              /\ h.ok /\ q.ok
              /\ pos = q.pos
              /\ ply.payload = <<Entry("b", Get(q.payload, "b"))>>
        /\ result = "err" => (~h.ok \/ (~q.ok /\ ~q.panic))
        /\ result = "panic" => (h.ok /\ q.panic)
        /\ (pc = "payload" /\ ei = 0) => pos = h.pos

\* a binary file whose element a, bound to no field, comes first with a list
\* of one value: the load has returned the row of b behind it
C26_Witness ==
    /\ result = "ok"
    /\ header.encoding = "binary_big_endian"
    /\ header.elements[1].key = "a"
    /\ pos = Len(src)
    /\ src[pos - 2] = Byte(1)
    /\ ply.payload = <<Entry("b", << <<Entry("x", Property("UChar", <<255>>))>> >>)>>

\* whether the keys of the map are pairwise distinct
DistinctKeys(map) ==
    \A i, j \in 1..Len(map) : map[i].key = map[j].key => i = j

\* the index of the last element line of the name among the statements
LastDeclared(st, name) ==
    CHOOSE i \in 1..Len(st) :
        /\ st[i].t = "element" /\ st[i].s = name
        /\ \A j \in (i + 1)..Len(st) : ~(st[j].t = "element" /\ st[j].s = name)

\* C27: in a header that was read the element names are pairwise distinct
\* and so are the property names of each element; there is one element per
\* declared name, with the count of the last line that declares it and,
\* when no property line follows that line, without properties.
C27_DistinctNames ==
    header # NoHeader =>
        LET st == HeaderStatements(src)
            declared == { st[i].s : i \in { j \in 1..Len(st) : st[j].t = "element" } }
            lines(t) == Cardinality({ i \in 1..Len(st) : st[i].t = t })
        IN  /\ DistinctKeys(header.elements)
            /\ \A i \in 1..Len(header.elements) :
                  /\ DistinctKeys(header.elements[i].value.properties)
                  /\ Len(header.elements[i].value.properties) <= lines("property")
            /\ { header.elements[i].key : i \in 1..Len(header.elements) } = declared
            /\ Len(header.elements) <= lines("element")
            /\ \A i \in 1..Len(header.elements) :
                  LET last == LastDeclared(st, header.elements[i].key)
                  IN  /\ header.elements[i].value.count = st[last].n
                      /\ (\A j \in (last + 1)..Len(st) : st[j].t # "property")
                            => header.elements[i].value.properties = << >>

\* a header with a declared, given the property x, and declared again: one
\* element, without properties, from three declaration lines
C27_Witness ==
    /\ header # NoHeader
    /\ Len(header.elements) = 1
    /\ header.elements[1].value.properties = << >>
    /\ SelectSeq(HeaderStatements(src), LAMBDA x : x.t \in {"element", "property"})
          = <<ElementLn("a", 1, 0), PropertyLn("x", "", "char"), ElementLn("a", 1, 0)>>

RECURSIVE Taken(_, _, _, _)
\* the number of tokens that the properties from the j-th on take behind
\* the first `at`, one for a scalar and for a list its length and that many
\* more; -1 when the tokens end before, or a length is no length
Taken(toks, props, j, at) ==
    IF j > Len(props) THEN at
    ELSE IF at >= Len(toks) THEN -1
    ELSE IF props[j].value.data_type.kind = "Scalar"
    THEN Taken(toks, props, j + 1, at + 1)
    ELSE IF Count(toks[at + 1]) /\ ~IsWide(toks[at + 1])
    THEN Taken(toks, props, j + 1, at + 1 + toks[at + 1].n)
    ELSE -1

\* C28: when the declared properties take fewer tokens than the line holds
\* and the line without the tokens left over decodes to an element, the
\* line with them decodes to the same element: the row is read, the element
\* is the one of the shorter line, and the read goes on.
C28_SurplusTokensIgnored ==
    [][( /\ pc = "rows" /\ header.encoding = "ascii"
         /\ Len(elems) < element_def.count
         /\ pos < Len(src)
         /\ WellLaid(SubSeq(src, pos + 1, pos')) )
       => LET toks == Tokens(SubSeq(src, pos + 1, pos'))
              n == Taken(toks, element_def.properties, 1, 0)
          IN  (n >= 0 /\ n < Len(toks)) =>
                 LET t == read_ascii_element(Canon(SubSeq(toks, 1, n)), element_def)
                 IN  t.ok => /\ elems' = Append(elems, t.elem)
                             /\ pc' = "rows"
                             /\ result' \notin {"err", "panic"}
      ]_vars

\* the row x = 2, y = 1 read from a line of three tokens
C28_Witness ==
    /\ pc = "rows"
    /\ header.encoding = "ascii"
    /\ Len(elems) = 1
    /\ Len(elems[1]) = 2
    /\ elems[1][1].value = Property("Int", <<2>>)
    /\ elems[1][2].value = Property("UInt", <<1>>)
    /\ \E k \in 5..7 :
          /\ pos >= k
          /\ WellLaid(SubSeq(src, pos - k + 1, pos))
          /\ Len(Tokens(SubSeq(src, pos - k + 1, pos))) = 3

\* whether the line holds nothing but blanks before its terminator
Blank(chunk) ==
    \A i \in 1..Len(Unterminated(chunk)) : IsSpace(Unterminated(chunk)[i])

\* whether the items p+1..q of the input are one line: q is the first line
\* feed behind p, or the end of the input when none follows
OneLine(s, p, q) ==
    /\ p < q /\ q <= Len(s)
    /\ \A i \in (p + 1)..(q - 1) : s[i] # LF
    /\ s[q] = LF \/ q = Len(s)

\* C29: behind an ASCII header every turn of the row loop takes exactly one
\* line of the input and makes at most one row of it; a line of blanks is a
\* row without tokens, the empty element when the element has no properties
\* and a parse error otherwise; no other step reads, so the lines behind the
\* last declared row stay unread.
C29_OneLineOneRow ==
    [][( /\ pc \in {"payload", "rows"}
         /\ header.encoding = "ascii" )
       => IF pc = "rows" /\ Len(elems) < element_def.count /\ pos < Len(src)
          THEN /\ OneLine(src, pos, pos')
               /\ \/ elems' = elems /\ result' \in {"err", "panic"}
                  \/ /\ Len(elems') = Len(elems) + 1
                     /\ SubSeq(elems', 1, Len(elems)) = elems
                     /\ pc' = "rows"
               /\ Blank(SubSeq(src, pos + 1, pos'))
                     => IF element_def.properties = << >>
                        THEN elems' = Append(elems, new) /\ pc' = "rows"
                        ELSE /\ elems' = elems
                             /\ result' = "err"
                             /\ err'.cat = "Parse"
          ELSE pos' = pos
      ]_vars

\* a file read to its end with one row made of a line of blanks, and a line
\* behind it that was not read
C29_Witness ==
    /\ result = "ok"
    /\ header.encoding = "ascii"
    /\ Len(ply.payload) = 1
    /\ ply.payload[1].value = <<new>>
    /\ pos < Len(src)
    /\ src[pos] = LF
    /\ src[pos - 1] = TAB
    /\ src[pos + 1] = One

\* C30: in an ASCII row the first token of a list is its length whatever
\* index kind the property declares: a length that the index kind cannot
\* hold is taken as it stands, and with that many literals of the value
\* kind behind it the row is read and the list holds them all.
C30_AsciiCountIgnoresIndexType ==
    [][( /\ pc = "rows" /\ header.encoding = "ascii"
         /\ Len(elems) < element_def.count
         /\ pos < Len(src)
         /\ WellLaid(SubSeq(src, pos + 1, pos'))
         /\ Len(element_def.properties) = 1
         /\ element_def.properties[1].value.data_type.kind = "List" )
       => LET toks == Tokens(SubSeq(src, pos + 1, pos'))
              dt == element_def.properties[1].value.data_type
          IN  ( /\ Len(toks) >= 1
                /\ Count(toks[1]) /\ ~IsWide(toks[1])
                /\ Len(toks) >= 1 + toks[1].n
                /\ \A i \in 2..(1 + toks[1].n) : Literal(toks[i], dt.elem) )
              => /\ result' \notin {"err", "panic"}
                 /\ elems' = Append(elems,
                       <<Entry(element_def.properties[1].key,
                               Property(ListTag(dt.elem),
                                        [i \in 1..toks[1].n |-> TokenValue(toks[i + 1])]))>>)
      ]_vars

\* a row whose list, declared with the index kind uchar, holds 300 values
C30_Witness ==
    /\ pc = "rows"
    /\ header.encoding = "ascii"
    /\ Len(element_def.properties) = 1
    /\ element_def.properties[1].value.data_type = List("uchar", "int")
    /\ Len(elems) = 1
    /\ elems[1][1].value.tag = "ListInt"
    /\ Len(elems[1][1].value.v) = 300
    /\ Len(elems[1][1].value.v) > MaxOf(element_def.properties[1].value.data_type.index)

====
